---- MODULE Spec2Model ----
(***************************************************************************)
(* A model of rust-git: the object store, the staging index, commit,      *)
(* checkout and the reference files, as a state machine over a file       *)
(* system.  File contents are byte sequences.  A byte is written as a     *)
(* one-character string when it is "\n" or printable ASCII and as two     *)
(* lowercase hex digits otherwise, so "00" is NUL and <<"h","i","\n">>    *)
(* is the three bytes of "hi\n".                                           *)
(***************************************************************************)
EXTENDS Integers, Sequences, FiniteSets, TLC

VARIABLES fs, last, pending

vars == <<fs, last, pending>>

----------------------------------------------------------------------------
(* Bytes                                                                   *)

HexDigit ==
    <<"0","1","2","3","4","5","6","7","8","9","a","b","c","d","e","f">>

Digit == <<"0","1","2","3","4","5","6","7","8","9">>

Upper ==
    <<"A","B","C","D","E","F","G","H","I","J","K","L","M",
      "N","O","P","Q","R","S","T","U","V","W","X","Y","Z">>

Lower ==
    <<"a","b","c","d","e","f","g","h","i","j","k","l","m",
      "n","o","p","q","r","s","t","u","v","w","x","y","z">>

\* The name of byte n: its character when that is a letter, a digit or one
\* of the punctuation marks below, two hex digits otherwise.
ByteOf ==
    [n \in 0..255 |->
        IF n >= 48 /\ n <= 57 THEN Digit[n - 47]
        ELSE IF n >= 65 /\ n <= 90 THEN Upper[n - 64]
        ELSE IF n >= 97 /\ n <= 122 THEN Lower[n - 96]
        ELSE CASE n = 10 -> "\n"
               [] n = 32 -> " "
               [] n = 33 -> "!"
               [] n = 35 -> "#"
               [] n = 42 -> "*"
               [] n = 43 -> "+"
               [] n = 45 -> "-"
               [] n = 46 -> "."
               [] n = 47 -> "/"
               [] n = 58 -> ":"
               [] n = 60 -> "<"
               [] n = 62 -> ">"
               [] n = 63 -> "?"
               [] n = 64 -> "@"
               [] n = 92 -> "\\"
               [] n = 95 -> "_"
               [] OTHER -> HexDigit[(n \div 16) + 1] \o HexDigit[(n % 16) + 1]]

Byte == {ByteOf[n] : n \in 0..255}

CodeOf == [b \in Byte |-> CHOOSE n \in 0..255 : ByteOf[n] = b]

NUL == ByteOf[0]
SP == " "
LF == "\n"

StartsWith(s, p) == Len(s) >= Len(p) /\ SubSeq(s, 1, Len(p)) = p

Drop(s, n) == SubSeq(s, n + 1, Len(s))

\* Index of the first b in s at or after position from, 0 when there is none.
Position(s, b, from) ==
    LET hits == {i \in from..Len(s) : s[i] = b}
    IN  IF hits = {} THEN 0 ELSE CHOOSE i \in hits : \A j \in hits : i <= j

IsWhite(b) == b \in {SP, LF, ByteOf[9], ByteOf[13]}

RECURSIVE TrimStart(_)
TrimStart(s) ==
    IF s # <<>> /\ IsWhite(s[1]) THEN TrimStart(Tail(s)) ELSE s

RECURSIVE TrimEnd(_)
TrimEnd(s) ==
    IF s # <<>> /\ IsWhite(s[Len(s)]) THEN TrimEnd(SubSeq(s, 1, Len(s) - 1))
    ELSE s

Trim(s) == TrimEnd(TrimStart(s))

\* The decimal digits of n.
RECURSIVE Decimal(_)
Decimal(n) ==
    IF n < 10 THEN <<HexDigit[n + 1]>>
    ELSE Decimal(n \div 10) \o <<HexDigit[(n % 10) + 1]>>

\* hex::encode: two lowercase hex digits per byte.
HexEncode(raw) ==
    [i \in 1..(2 * Len(raw)) |->
        IF i % 2 = 1 THEN HexDigit[(CodeOf[raw[(i + 1) \div 2]] \div 16) + 1]
        ELSE HexDigit[(CodeOf[raw[i \div 2]] % 16) + 1]]

HexVal(c) == IF c \in {HexDigit[i] : i \in 1..16}
             THEN (CHOOSE i \in 1..16 : HexDigit[i] = c) - 1
             ELSE IF c \in {"A","B","C","D","E","F"}
             THEN CodeOf[c] - 55
             ELSE -1

IsHexStr(s) == \A i \in 1..Len(s) : HexVal(s[i]) >= 0

\* hex::decode: [ok, raw]; an odd length or a non-hex character is an error.
HexDecodeRaw(s) ==
    [i \in 1..(Len(s) \div 2) |->
        ByteOf[16 * HexVal(s[2 * i - 1]) + HexVal(s[2 * i])]]

HexDecode(s) ==
    IF Len(s) % 2 = 0 /\ IsHexStr(s)
    THEN [ok |-> TRUE, raw |-> HexDecodeRaw(s)]
    ELSE [ok |-> FALSE, raw |-> <<>>]

----------------------------------------------------------------------------
(* SHA-1 and zlib.  Both are library calls.  Sha1 is a deterministic      *)
(* 20-byte digest of its input: two polynomial digests of the bytes,      *)
(* modulo two primes, spread over 20 bytes.  ZlibEncode is a stored       *)
(* stream: the two header bytes 78 9c followed by the data.                *)

PrimeA == 32749
PrimeB == 32719

RECURSIVE PowMod(_, _, _)
PowMod(x, k, m) ==
    IF k = 0 THEN 1
    ELSE IF k % 2 = 0 THEN (PowMod(x, k \div 2, m) * PowMod(x, k \div 2, m)) % m
    ELSE (x * PowMod(x, k - 1, m)) % m

\* The polynomial digest of bytes[lo..hi] in base x modulo m.
RECURSIVE Poly(_, _, _, _, _)
Poly(bytes, lo, hi, x, m) ==
    IF lo > hi THEN 0
    ELSE IF lo = hi THEN (CodeOf[bytes[lo]] + 1) % m
    ELSE LET mid == (lo + hi) \div 2
         IN  (Poly(bytes, lo, mid, x, m) * PowMod(x, hi - mid, m)
              + Poly(bytes, mid + 1, hi, x, m)) % m

RECURSIVE Spread(_, _, _)
Spread(a, b, n) ==
    IF n = 0 THEN <<>>
    ELSE <<ByteOf[(a + b) % 256]>>
         \o Spread((a * 33 + b + 17) % PrimeA, (b * 29 + a + 5) % PrimeB, n - 1)

Sha1(bytes) ==
    LET a == (Poly(bytes, 1, Len(bytes), 257, PrimeA) + Len(bytes)) % PrimeA
        b == (Poly(bytes, 1, Len(bytes), 263, PrimeB) + 7 * Len(bytes)) % PrimeB
    IN  <<ByteOf[a \div 256], ByteOf[a % 256], ByteOf[b \div 256], ByteOf[b % 256]>>
        \o Spread(a, b, 16)

ZlibHeader == <<ByteOf[120], ByteOf[156]>>

ZlibEncode(data) == ZlibHeader \o data

ZlibDecode(z) ==
    IF StartsWith(z, ZlibHeader)
    THEN [ok |-> TRUE, data |-> Drop(z, 2)]
    ELSE [ok |-> FALSE, data |-> <<>>]

----------------------------------------------------------------------------
(* The file system.  A path is the sequence of its components from the    *)
(* root; fs.files maps the path of each file to its bytes and fs.dirs is  *)
(* the set of directories.                                                 *)

\* The first component of every absolute path (Component::RootDir); a
\* relative path does not start with it.
ROOT == <<"/">>

Parent(p) == SubSeq(p, 1, Len(p) - 1)

IsPrefix(p, q) == Len(q) >= Len(p) /\ SubSeq(q, 1, Len(p)) = p

IsFile(f, p) == p \in DOMAIN f.files

IsDir(f, p) == p \in f.dirs

Exists(f, p) == IsFile(f, p) \/ IsDir(f, p)

Ancestors(p) == {SubSeq(p, 1, n) : n \in 1..Len(p)}

\* fs::create_dir_all
CreateDirAll(f, p) ==
    IF \E a \in Ancestors(p) : IsFile(f, a)
    THEN [ok |-> FALSE, fs |-> f]
    ELSE [ok |-> TRUE, fs |-> [f EXCEPT !.dirs = @ \cup Ancestors(p)]]

\* File::create followed by write_all, and fs::write: the file is created or
\* truncated, then holds data.
WriteFile(f, p, data) ==
    IF p = <<>> \/ ~IsDir(f, Parent(p)) \/ IsDir(f, p)
    THEN [ok |-> FALSE, fs |-> f]
    ELSE [ok |-> TRUE,
          fs |-> [f EXCEPT !.files =
                    [q \in DOMAIN f.files \cup {p} |->
                        IF q = p THEN data ELSE f.files[q]]]]

\* fs::read
ReadFile(f, p) ==
    IF IsFile(f, p) THEN [ok |-> TRUE, data |-> f.files[p]]
    ELSE [ok |-> FALSE, data |-> <<>>]

\* fs::remove_file
RemoveFile(f, p) ==
    IF IsFile(f, p)
    THEN [ok |-> TRUE,
          fs |-> [f EXCEPT !.files = [q \in DOMAIN f.files \ {p} |-> f.files[q]]]]
    ELSE [ok |-> FALSE, fs |-> f]

\* fs::remove_dir_all
RemoveDirAll(f, p) ==
    IF IsDir(f, p)
    THEN [ok |-> TRUE,
          fs |-> [files |-> [q \in {r \in DOMAIN f.files : ~IsPrefix(p, r)}
                                |-> f.files[q]],
                  dirs |-> {r \in f.dirs : ~IsPrefix(p, r)}]]
    ELSE [ok |-> FALSE, fs |-> f]

\* fs::read_dir: the paths of the entries of directory p.
ReadDir(f, p) ==
    {q \in DOMAIN f.files \cup f.dirs : Len(q) = Len(p) + 1 /\ IsPrefix(p, q)}

\* The components of a path written with "/" separators (PathBuf::from and
\* Path::components: empty components are dropped).
RECURSIVE SplitFrom(_, _, _)
SplitFrom(s, i, cur) ==
    IF i > Len(s) THEN (IF cur = <<>> THEN <<>> ELSE <<cur>>)
    ELSE IF s[i] = "/"
         THEN (IF cur = <<>> THEN <<>> ELSE <<cur>>) \o SplitFrom(s, i + 1, <<>>)
         ELSE SplitFrom(s, i + 1, Append(cur, s[i]))

PathFromStr(s) == SplitFrom(s, 1, <<>>)

\* to_string_lossy of a relative path.
RECURSIVE PathToStr(_)
PathToStr(p) ==
    IF p = <<>> THEN <<>>
    ELSE IF Len(p) = 1 THEN p[1]
    ELSE p[1] \o <<"/">> \o PathToStr(Tail(p))

----------------------------------------------------------------------------
(* Repository layout                                                       *)

W == <<"w">>
DOT_GIT == <<".", "g", "i", "t">>
RUST_GIT == <<".", "r", "u", "s", "t", "-", "g", "i", "t">>
OBJECTS == <<"o", "b", "j", "e", "c", "t", "s">>
REFS == <<"r", "e", "f", "s">>
HEADS == <<"h", "e", "a", "d", "s">>
TAGS == <<"t", "a", "g", "s">>
REMOTES == <<"r", "e", "m", "o", "t", "e", "s">>
BRANCHES == <<"b", "r", "a", "n", "c", "h", "e", "s">>
MASTER == <<"m", "a", "s", "t", "e", "r">>
HEAD == <<"H", "E", "A", "D">>
INDEX == <<"i", "n", "d", "e", "x">>
CONFIG == <<"c", "o", "n", "f", "i", "g">>
DESCRIPTION == <<"d", "e", "s", "c", "r", "i", "p", "t", "i", "o", "n">>

\* The directory the commands run in; repo_find(".") finds the repository there.
Worktree == <<ROOT, W>>

\* GitRepository::new: gitdir = worktree.join(".git")
Gitdir == Worktree \o <<DOT_GIT>>

RefPrefix == <<"r", "e", "f", ":", " ">>

RefsHeadsMaster == REFS \o <<"/">> \o HEADS \o <<"/">> \o MASTER

HeadDefault == RefPrefix \o RefsHeadsMaster \o <<LF>>

----------------------------------------------------------------------------
(* KVLM                                                                    *)

EmptyKvlm == [headers |-> <<>>, message |-> <<>>]

\* The continuation lines of a header value: "\n " becomes "\n", that is,
\* a space is dropped when the byte before it is a line feed.
RECURSIVE UnfoldRange(_, _, _)
UnfoldRange(slice, lo, hi) ==
    IF lo > hi THEN <<>>
    ELSE IF lo = hi
         THEN IF slice[lo] = SP /\ lo > 1 /\ slice[lo - 1] = LF THEN <<>>
              ELSE <<slice[lo]>>
    ELSE UnfoldRange(slice, lo, (lo + hi) \div 2)
         \o UnfoldRange(slice, ((lo + hi) \div 2) + 1, hi)

Unfold(slice) == UnfoldRange(slice, 1, Len(slice))

\* The end of a header value that starts after position from: the first LF
\* that is not followed by a space; 0 when a line has no LF.
RECURSIVE ValueEnd(_, _)
ValueEnd(raw, from) ==
    LET nlpos == Position(raw, LF, from)
    IN  IF nlpos = 0 THEN 0
        ELSE IF nlpos + 1 <= Len(raw) /\ raw[nlpos + 1] = SP
             THEN ValueEnd(raw, nlpos + 1)
             ELSE nlpos

RECURSIVE KvlmLoop(_, _, _)
KvlmLoop(raw, pos, headers) ==
    LET spc == Position(raw, SP, pos)
        nl == Position(raw, LF, pos)
    IN  IF nl # 0 /\ (spc = 0 \/ spc > nl)
        THEN IF nl # pos
             THEN [ok |-> FALSE, kvlm |-> EmptyKvlm]
             ELSE [ok |-> TRUE,
                   kvlm |-> [headers |-> headers, message |-> Drop(raw, nl)]]
        ELSE IF spc # 0 /\ nl # 0
        THEN LET end == ValueEnd(raw, spc + 1)
             IN  IF end = 0 THEN [ok |-> FALSE, kvlm |-> EmptyKvlm]
                 ELSE LET hs == Append(headers,
                                 <<SubSeq(raw, pos, spc - 1),
                                   Unfold(SubSeq(raw, spc + 1, end - 1))>>)
                      IN  IF end + 1 > Len(raw)
                          THEN [ok |-> TRUE,
                                kvlm |-> [headers |-> hs, message |-> <<>>]]
                          ELSE KvlmLoop(raw, end + 1, hs)
        ELSE [ok |-> FALSE, kvlm |-> EmptyKvlm]

kvlm_parse(raw) ==
    IF raw = <<>> THEN [ok |-> TRUE, kvlm |-> EmptyKvlm]
    ELSE KvlmLoop(raw, 1, <<>>)

\* A value written as it is, line feeds not followed by a space.
FoldNone(v) == v

\* A value as kvlm_serialize writes it: a space after every line feed.
RECURSIVE FoldRange(_, _, _)
FoldRange(v, lo, hi) ==
    IF lo > hi THEN <<>>
    ELSE IF lo = hi THEN (IF v[lo] = LF THEN <<LF, SP>> ELSE <<v[lo]>>)
    ELSE FoldRange(v, lo, (lo + hi) \div 2) \o FoldRange(v, ((lo + hi) \div 2) + 1, hi)

Fold(v) == FoldRange(v, 1, Len(v))

RECURSIVE SerializeHeaders(_)
SerializeHeaders(hs) ==
    IF hs = <<>> THEN <<>>
    ELSE hs[1][1] \o <<SP>> \o Fold(hs[1][2]) \o <<LF>> \o SerializeHeaders(Tail(hs))

kvlm_serialize(kvlm) == SerializeHeaders(kvlm.headers) \o <<LF>> \o kvlm.message

\* Kvlm::get: the value of the first header named key.
KvlmGet(kvlm, key) ==
    LET hit == {i \in 1..Len(kvlm.headers) : kvlm.headers[i][1] = key}
    IN  IF hit = {} THEN [some |-> FALSE, value |-> <<>>]
        ELSE [some |-> TRUE,
              value |-> kvlm.headers[CHOOSE i \in hit : \A j \in hit : i <= j][2]]

----------------------------------------------------------------------------
(* Tree objects                                                            *)

RECURSIVE TreeSerialize(_)
TreeSerialize(entries) ==
    IF entries = <<>> THEN <<>>
    ELSE entries[1].mode \o <<SP>> \o entries[1].path \o <<NUL>> \o entries[1].sha
         \o TreeSerialize(Tail(entries))

RECURSIVE TreeLoop(_, _, _)
TreeLoop(data, pos, entries) ==
    IF pos > Len(data) THEN [ok |-> TRUE, entries |-> entries]
    ELSE LET space == Position(data, SP, pos)
             null == IF space = 0 THEN 0 ELSE Position(data, NUL, space + 1)
         IN  IF space = 0 \/ null = 0 \/ null + 20 > Len(data)
             THEN [ok |-> FALSE, entries |-> <<>>]
             ELSE TreeLoop(data, null + 21,
                           Append(entries,
                                  [mode |-> SubSeq(data, pos, space - 1),
                                   path |-> SubSeq(data, space + 1, null - 1),
                                   sha |-> SubSeq(data, null + 1, null + 20)]))

TreeDeserialize(data) == TreeLoop(data, 1, <<>>)

----------------------------------------------------------------------------
(* Objects.  An object is [type, data] (blob), [type, entries] (tree) or  *)
(* [type, kvlm] (commit, tag).                                             *)

TypeName(t) ==
    CASE t = "blob" -> <<"b", "l", "o", "b">>
      [] t = "commit" -> <<"c", "o", "m", "m", "i", "t">>
      [] t = "tree" -> <<"t", "r", "e", "e">>
      [] t = "tag" -> <<"t", "a", "g">>

Blob(data) == [type |-> "blob", data |-> data]
Tree(entries) == [type |-> "tree", entries |-> entries]
Commit(kvlm) == [type |-> "commit", kvlm |-> kvlm]

NoObject == [type |-> "none"]

\* GitObject::serialize
Serialize(obj) ==
    CASE obj.type = "blob" -> obj.data
      [] obj.type = "tree" -> TreeSerialize(obj.entries)
      [] obj.type \in {"commit", "tag"} -> kvlm_serialize(obj.kvlm)

\* header ++ data, the bytes that are hashed and stored
FrameOf(type_name, data) ==
    TypeName(type_name) \o <<SP>> \o Decimal(Len(data)) \o <<NUL>> \o data

Frame(obj, type_name) == FrameOf(type_name, Serialize(obj))

ObjectId(obj, type_name) == HexEncode(Sha1(Frame(obj, type_name)))

ObjectDir(sha) == Gitdir \o <<OBJECTS, SubSeq(sha, 1, 2)>>

ObjectPath(sha) == ObjectDir(sha) \o <<Drop(sha, 2)>>

\* object_write(repo, obj, type_name, write) in two parts: create is the
\* state when File::create has created or truncated the object file and
\* write_all has not run yet, fs the state when object_write returns.
WriteObjectFile(f, store_data, hash_hex, write) ==
    LET d == CreateDirAll(f, ObjectDir(hash_hex))
        c == WriteFile(d.fs, ObjectPath(hash_hex), <<>>)
        w == WriteFile(c.fs, ObjectPath(hash_hex), ZlibEncode(store_data))
    IN  IF ~write THEN [ok |-> TRUE, fs |-> f, create |-> f, sha |-> hash_hex]
        ELSE IF ~d.ok THEN [ok |-> FALSE, fs |-> f, create |-> f, sha |-> hash_hex]
        ELSE IF ~c.ok THEN [ok |-> FALSE, fs |-> d.fs, create |-> d.fs, sha |-> hash_hex]
        ELSE [ok |-> TRUE, fs |-> w.fs, create |-> c.fs, sha |-> hash_hex]

HashFrame(f, store_data, write) ==
    WriteObjectFile(f, store_data, HexEncode(Sha1(store_data)), write)

object_write(f, obj, type_name, write) == HashFrame(f, Frame(obj, type_name), write)

\* split_whitespace().next()
RECURSIVE TokenEnd(_, _)
TokenEnd(s, i) ==
    IF i > Len(s) \/ IsWhite(s[i]) THEN i - 1 ELSE TokenEnd(s, i + 1)

FirstToken(s) ==
    LET t == TrimStart(s) IN SubSeq(t, 1, TokenEnd(t, 1))

ReadError == [ok |-> FALSE, type |-> "none", obj |-> NoObject]

object_read(f, sha) ==
    IF Len(sha) < 2 THEN ReadError
    ELSE
    LET file == ReadFile(f, ObjectPath(sha))
        z == ZlibDecode(file.data)
        null_pos == Position(z.data, NUL, 1)
        header == SubSeq(z.data, 1, null_pos - 1)
        content == Drop(z.data, null_pos)
        type_name == FirstToken(header)
    IN  IF ~file.ok \/ ~z.ok \/ null_pos = 0 \/ type_name = <<>> THEN ReadError
        ELSE IF type_name = TypeName("blob")
        THEN [ok |-> TRUE, type |-> "blob", obj |-> Blob(content)]
        ELSE IF type_name = TypeName("commit")
        THEN LET k == kvlm_parse(content)
             IN  IF k.ok THEN [ok |-> TRUE, type |-> "commit", obj |-> Commit(k.kvlm)]
                 ELSE ReadError
        ELSE IF type_name = TypeName("tree")
        THEN LET t == TreeDeserialize(content)
             IN  IF t.ok THEN [ok |-> TRUE, type |-> "tree", obj |-> Tree(t.entries)]
                 ELSE ReadError
        ELSE ReadError

\* object_hash: deserialize data as type_name, then object_write(.., true).
object_hash(f, data, type_name) ==
    CASE type_name = "blob" -> object_write(f, Blob(data), type_name, TRUE)
      [] type_name = "tree" ->
            LET t == TreeDeserialize(data)
            IN  IF t.ok THEN object_write(f, Tree(t.entries), type_name, TRUE)
                ELSE [ok |-> FALSE, fs |-> f, create |-> f, sha |-> <<>>]
      [] type_name \in {"commit", "tag"} ->
            LET k == kvlm_parse(data)
            IN  IF k.ok
                THEN object_write(f, [type |-> type_name, kvlm |-> k.kvlm],
                                  type_name, TRUE)
                ELSE [ok |-> FALSE, fs |-> f, create |-> f, sha |-> <<>>]

----------------------------------------------------------------------------
(* Name resolution                                                         *)

NoName == [ok |-> FALSE, sha |-> <<>>]

\* The candidates of resolve_sha: the names in objects/<short[..2]> that,
\* after those two characters, start with short.
ShaMatches(f, short) ==
    LET dir == Gitdir \o <<OBJECTS, SubSeq(short, 1, 2)>>
        candidates == {SubSeq(short, 1, 2) \o q[Len(q)] : q \in ReadDir(f, dir)}
    IN  {c \in candidates : StartsWith(c, short)}

NoObjectsFound == "No objects found for prefix"
AmbiguousPrefix == "Ambiguous prefix"

\* resolve_sha that returns a match when there are several.
ResolveShaAnyMatch(f, short) ==
    IF ShaMatches(f, short) = {} THEN [ok |-> FALSE, sha |-> <<>>, err |-> NoObjectsFound]
    ELSE [ok |-> TRUE, sha |-> CHOOSE c \in ShaMatches(f, short) : TRUE, err |-> ""]

\* resolve_sha with the error it fails with
ResolveSha(f, short) ==
    LET dir == Gitdir \o <<OBJECTS, SubSeq(short, 1, 2)>>
        hits == ShaMatches(f, short)
    IN  IF Len(short) = 40 THEN [ok |-> TRUE, sha |-> short, err |-> ""]
        ELSE IF ~Exists(f, dir) THEN [ok |-> FALSE, sha |-> <<>>, err |-> NoObjectsFound]
        ELSE IF ~IsDir(f, dir) THEN [ok |-> FALSE, sha |-> <<>>, err |-> "read_dir"]
        ELSE IF hits = {} THEN [ok |-> FALSE, sha |-> <<>>, err |-> NoObjectsFound]
        ELSE IF Cardinality(hits) = 1
        THEN [ok |-> TRUE, sha |-> CHOOSE c \in hits : TRUE, err |-> ""]
        ELSE [ok |-> FALSE, sha |-> <<>>, err |-> AmbiguousPrefix]

\* resolve_sha
resolve_sha(f, short) ==
    [ok |-> ResolveSha(f, short).ok, sha |-> ResolveSha(f, short).sha]

\* fs::read_to_string(path)?.trim()
ReadTrimmed(f, path) ==
    IF IsFile(f, path) THEN [ok |-> TRUE, sha |-> Trim(f.files[path])]
    ELSE NoName

\* resolve_ref
resolve_ref(f, refname) ==
    IF Exists(f, Gitdir \o PathFromStr(refname))
    THEN ReadTrimmed(f, Gitdir \o PathFromStr(refname))
    ELSE NoName

RECURSIVE FirstExisting(_, _)
FirstExisting(f, paths) ==
    IF paths = <<>> THEN NoName
    ELSE IF Exists(f, paths[1]) THEN ReadTrimmed(f, paths[1])
    ELSE FirstExisting(f, Tail(paths))

\* object_resolve
object_resolve(f, name) ==
    IF IsHexStr(name) /\ Len(name) >= 4 /\ Len(name) <= 40
    THEN resolve_sha(f, name)
    ELSE IF name = HEAD
    THEN LET data == ReadFile(f, Gitdir \o <<HEAD>>)
         IN  IF ~data.ok THEN NoName
             ELSE IF StartsWith(data.data, RefPrefix)
                  THEN resolve_ref(f, Trim(Drop(data.data, 5)))
                  ELSE [ok |-> TRUE, sha |-> Trim(data.data)]
    ELSE FirstExisting(f,
            <<Gitdir \o PathFromStr(name),
              Gitdir \o <<REFS, HEADS>> \o PathFromStr(name),
              Gitdir \o <<REFS, TAGS>> \o PathFromStr(name),
              Gitdir \o <<REFS, REMOTES>> \o PathFromStr(name)>>)

RedPrefix == <<"r", "e", "d", ":", " ">>

\* ref_parse in refs.rs
ref_parse(f, name) ==
    IF IsHexStr(name) /\ Len(name) >= 4 /\ Len(name) <= 40
    THEN resolve_sha(f, name)
    ELSE IF name = HEAD
    THEN LET data == ReadFile(f, Gitdir \o <<HEAD>>)
         IN  IF ~data.ok THEN NoName
             ELSE IF StartsWith(data.data, RedPrefix)
                  THEN resolve_ref(f, Trim(Drop(data.data, 5)))
                  ELSE [ok |-> TRUE, sha |-> Trim(data.data)]
    ELSE FirstExisting(f,
            <<Gitdir \o PathFromStr(name),
              Gitdir \o <<REFS, HEADS>> \o PathFromStr(name),
              Gitdir \o <<REFS, TAGS>> \o PathFromStr(name),
              Gitdir \o <<REFS, REMOTES>> \o PathFromStr(name)>>)

\* object_find without the check of the type.
object_find_any(f, name, fmt) == object_resolve(f, name)

\* object_find: the name is resolved, then the object read and its type
\* compared with fmt ("any" when the caller gives None).
HasType(o, fmt) == o.ok /\ o.type = fmt

FindResolved(f, r, fmt) ==
    IF ~r.ok THEN NoName
    ELSE IF fmt = "any" THEN r
    ELSE IF ~HasType(object_read(f, r.sha), fmt) THEN NoName
    ELSE r

object_find(f, name, fmt) == FindResolved(f, object_resolve(f, name), fmt)

----------------------------------------------------------------------------
(* The index file                                                          *)

DIRC == <<"D", "I", "R", "C">>

U32(n) ==
    <<ByteOf[(n \div 16777216) % 256], ByteOf[(n \div 65536) % 256],
      ByteOf[(n \div 256) % 256], ByteOf[n % 256]>>

U16(n) == <<ByteOf[(n \div 256) % 256], ByteOf[n % 256]>>

\* A 32-bit integer read least significant byte first.
GetU32LittleEndian(b, pos) ==
    CodeOf[b[pos]] + 256 * CodeOf[b[pos + 1]]
    + 65536 * CodeOf[b[pos + 2]] + 16777216 * CodeOf[b[pos + 3]]

\* read_u32::<BigEndian> and read_u16::<BigEndian> at position pos
GetU32(b, pos) ==
    16777216 * CodeOf[b[pos]] + 65536 * CodeOf[b[pos + 1]]
    + 256 * CodeOf[b[pos + 2]] + CodeOf[b[pos + 3]]

GetU16(b, pos) == 256 * CodeOf[b[pos]] + CodeOf[b[pos + 1]]

Zeros(n) == [i \in 1..n |-> NUL]

\* Padding computed from the length of the path alone.
PaddingOfPath(pathLen) == (8 - (pathLen % 8)) % 8

Padding(pathLen) == (8 - ((62 + pathLen + 1) % 8)) % 8

EntryBytes(e) ==
    U32(e.ctime) \o U32(0) \o U32(e.mtime) \o U32(0)
    \o U32(e.dev) \o U32(e.ino) \o U32(e.mode) \o U32(e.uid) \o U32(e.gid)
    \o U32(e.size) \o HexDecode(e.sha).raw \o U16(e.flags)
    \o e.path \o <<NUL>> \o Zeros(Padding(Len(e.path)))

\* The bytes write_index has written when it returns: everything, or the
\* entries before the first one whose sha is not hex followed by the ten
\* integer fields of that entry.
RECURSIVE EntriesBytes(_)
EntriesBytes(es) ==
    IF es = <<>> THEN [ok |-> TRUE, bytes |-> <<>>]
    ELSE IF ~HexDecode(es[1].sha).ok
         THEN [ok |-> FALSE, bytes |-> SubSeq(EntryBytes(es[1]), 1, 40)]
         ELSE LET rest == EntriesBytes(Tail(es))
              IN  [ok |-> rest.ok, bytes |-> EntryBytes(es[1]) \o rest.bytes]

IndexBytes(es) ==
    LET body == EntriesBytes(es)
    IN  [ok |-> body.ok, bytes |-> DIRC \o U32(2) \o U32(Len(es)) \o body.bytes]

\* write_index
write_index(f, entries) ==
    LET b == IndexBytes(entries)
        w == WriteFile(f, Gitdir \o <<INDEX>>, b.bytes)
    IN  [ok |-> w.ok /\ b.ok, fs |-> w.fs]

IndexError == [ok |-> FALSE, entries |-> <<>>]

RECURSIVE ReadEntries(_, _, _, _)
ReadEntries(b, pos, n, entries) ==
    IF n = 0 THEN [ok |-> TRUE, entries |-> entries]
    ELSE IF pos + 61 > Len(b) THEN IndexError
    ELSE LET null == Position(b, NUL, pos + 62)
             path == SubSeq(b, pos + 62, null - 1)
         IN  IF null = 0 THEN IndexError
             ELSE ReadEntries(b, null + 1 + Padding(Len(path)), n - 1,
                    Append(entries,
                           [ctime |-> GetU32(b, pos),
                            mtime |-> GetU32(b, pos + 8),
                            dev |-> GetU32(b, pos + 16),
                            ino |-> GetU32(b, pos + 20),
                            mode |-> GetU32(b, pos + 24),
                            uid |-> GetU32(b, pos + 28),
                            gid |-> GetU32(b, pos + 32),
                            size |-> GetU32(b, pos + 36),
                            sha |-> HexEncode(SubSeq(b, pos + 40, pos + 59)),
                            flags |-> GetU16(b, pos + 60),
                            path |-> path]))

\* read_index
read_index(f) ==
    IF ~Exists(f, Gitdir \o <<INDEX>>) THEN [ok |-> TRUE, entries |-> <<>>]
    ELSE LET b == ReadFile(f, Gitdir \o <<INDEX>>).data
         IN  IF ~IsFile(f, Gitdir \o <<INDEX>>) \/ Len(b) < 12 THEN IndexError
             ELSE IF SubSeq(b, 1, 4) # DIRC \/ GetU32(b, 5) # 2 THEN IndexError
             ELSE ReadEntries(b, 13, GetU32(b, 9), <<>>)

----------------------------------------------------------------------------
(* Opening the repository                                                  *)

TAB == ByteOf[9]

FormatVersionKey ==
    <<"r", "e", "p", "o", "s", "i", "t", "o", "r", "y", "f", "o", "r", "m",
      "a", "t", "v", "e", "r", "s", "i", "o", "n">>

ConfigDefault ==
    <<ByteOf[91], "c", "o", "r", "e", ByteOf[93], LF, TAB>>
    \o FormatVersionKey \o <<SP, ByteOf[61], SP, "0", LF, TAB>>
    \o <<"f", "i", "l", "e", "m", "o", "d", "e", SP, ByteOf[61], SP,
         "f", "a", "l", "s", "e", LF, TAB>>
    \o <<"b", "a", "r", "e", SP, ByteOf[61], SP, "f", "a", "l", "s", "e", LF>>

DescriptionDefault ==
    <<"U", "n", "n", "a", "m", "e", "d", SP, "r", "e", "p", "o", "s", "i",
      "t", "o", "r", "y", ByteOf[59], SP, "e", "d", "i", "t", SP,
      "t", "h", "i", "s", SP, "f", "i", "l", "e", SP, ByteOf[39]>>
    \o DESCRIPTION
    \o <<ByteOf[39], SP, "t", "o", SP, "n", "a", "m", "e", SP, "t", "h", "e",
         SP, "r", "e", "p", "o", "s", "i", "t", "o", "r", "y", ".", LF>>

\* str::parse::<u8>: -1 when s is not a decimal number below 256.
RECURSIVE ParseU8(_, _)
ParseU8(s, acc) ==
    IF s = <<>> THEN acc
    ELSE IF HexVal(s[1]) < 0 \/ HexVal(s[1]) > 9 THEN -1
         ELSE IF acc * 10 + HexVal(s[1]) > 255 THEN -1
         ELSE ParseU8(Tail(s), acc * 10 + HexVal(s[1]))

\* read_config: the last repositoryformatversion line wins, 0 when there is
\* none; -1 when a value does not parse.
RECURSIVE ConfigVersion(_, _, _)
ConfigVersion(content, from, version) ==
    IF from > Len(content) THEN version
    ELSE LET nl == Position(content, LF, from)
             stop == IF nl = 0 THEN Len(content) + 1 ELSE nl
             trimmed == Trim(SubSeq(content, from, stop - 1))
             eq == Position(trimmed, ByteOf[61], 1)
             num == Trim(Drop(trimmed, eq))
         IN  IF StartsWith(trimmed, FormatVersionKey) /\ eq # 0
             THEN IF num = <<>> \/ ParseU8(num, 0) < 0 THEN -1
                  ELSE ConfigVersion(content, stop + 1, ParseU8(num, 0))
             ELSE ConfigVersion(content, stop + 1, version)

\* repo_find(".", true) from the worktree: GitRepository::new(path, false)
\* when <path>/.git is a directory; the parent of the worktree is the file
\* system root, which holds no repository.
repo_find(f) ==
    IsDir(f, Gitdir)
    /\ IsFile(f, Gitdir \o <<CONFIG>>)
    /\ ConfigVersion(f.files[Gitdir \o <<CONFIG>>], 1, 0) = 0

\* GitRepository::create(worktree)
RECURSIVE WriteAll(_, _)
WriteAll(f, writes) ==
    IF writes = <<>> THEN [ok |-> TRUE, fs |-> f]
    ELSE LET w == WriteFile(f, writes[1][1], writes[1][2])
         IN  IF w.ok THEN WriteAll(w.fs, Tail(writes)) ELSE w


\* create without the test that the directory .git is empty.
RepositoryCreateAgain(f) ==
    LET made == IF Exists(f, Gitdir) THEN f
                ELSE [f EXCEPT !.dirs = @ \cup {Gitdir}]
        cfg == Gitdir \o <<CONFIG>>
    IN  IF ~Exists(f, Gitdir) /\ ~IsDir(f, Worktree) THEN [ok |-> FALSE, fs |-> f]
        ELSE IF IsFile(made, cfg) /\ ConfigVersion(made.files[cfg], 1, 0) < 0
        THEN [ok |-> FALSE, fs |-> made]
        ELSE IF ~IsDir(made, Worktree) \/ ~IsDir(made, Gitdir)
        THEN [ok |-> FALSE, fs |-> made]
        ELSE WriteAll(
               [made EXCEPT !.dirs = @ \cup {Gitdir \o <<BRANCHES>>,
                                             Gitdir \o <<OBJECTS>>,
                                             Gitdir \o <<REFS>>,
                                             Gitdir \o <<REFS, TAGS>>,
                                             Gitdir \o <<REFS, HEADS>>}],
               << <<Gitdir \o <<DESCRIPTION>>, DescriptionDefault>>,
                  <<Gitdir \o <<HEAD>>, HeadDefault>>,
                  <<Gitdir \o <<CONFIG>>, ConfigDefault>> >>)

RepositoryCreate(f) ==
    LET made == IF Exists(f, Gitdir) THEN f
                ELSE [f EXCEPT !.dirs = @ \cup {Gitdir}]
        cfg == Gitdir \o <<CONFIG>>
    IN  IF ~Exists(f, Gitdir) /\ ~IsDir(f, Worktree) THEN [ok |-> FALSE, fs |-> f]
        ELSE IF IsFile(made, cfg) /\ ConfigVersion(made.files[cfg], 1, 0) < 0
        THEN [ok |-> FALSE, fs |-> made]
        ELSE IF ~IsDir(made, Worktree) \/ ~IsDir(made, Gitdir)
                \/ ReadDir(made, Gitdir) # {}
        THEN [ok |-> FALSE, fs |-> made]
        ELSE WriteAll(
               [made EXCEPT !.dirs = @ \cup {Gitdir \o <<BRANCHES>>,
                                             Gitdir \o <<OBJECTS>>,
                                             Gitdir \o <<REFS>>,
                                             Gitdir \o <<REFS, TAGS>>,
                                             Gitdir \o <<REFS, HEADS>>}],
               << <<Gitdir \o <<DESCRIPTION>>, DescriptionDefault>>,
                  <<Gitdir \o <<HEAD>>, HeadDefault>>,
                  <<Gitdir \o <<CONFIG>>, ConfigDefault>> >>)

----------------------------------------------------------------------------
(* rm and add                                                              *)

\* Path::canonicalize of a path given relative to the worktree: the path
\* must exist.
Canonicalize(f, path) ==
    IF Exists(f, Worktree \o path)
    THEN [ok |-> TRUE, path |-> Worktree \o path]
    ELSE [ok |-> FALSE, path |-> <<>>]

\* Path::strip_prefix(worktree)
StripPrefix(abs) == Drop(abs, Len(Worktree))

InSeq(x, xs) == \E i \in 1..Len(xs) : xs[i] = x

RECURSIVE SelectSeq2(_, _, _)
SelectSeq2(xs, keep, i) ==
    IF i > Len(xs) THEN <<>>
    ELSE (IF keep[i] THEN <<xs[i]>> ELSE <<>>) \o SelectSeq2(xs, keep, i + 1)

RECURSIVE RemoveFiles(_, _)
RemoveFiles(f, paths) ==
    IF paths = <<>> THEN [ok |-> TRUE, fs |-> f]
    ELSE IF ~Exists(f, paths[1]) THEN RemoveFiles(f, Tail(paths))
    ELSE LET r == RemoveFile(f, paths[1])
         IN  IF r.ok THEN RemoveFiles(r.fs, Tail(paths)) ELSE r

\* rm(repo, paths, delete, skip_missing), index being what read_index gave.
RmEntries(f, paths, delete, skip_missing, index) ==
    LET abs == [i \in 1..Len(paths) |-> Canonicalize(f, paths[i])]
        relpaths == [i \in 1..Len(paths) |-> StripPrefix(abs[i].path)]
        full_path == [i \in 1..Len(index.entries) |->
                        Worktree \o PathFromStr(index.entries[i].path)]
        removed == [i \in 1..Len(index.entries) |-> InSeq(full_path[i], relpaths)]
        remove_files == SelectSeq2(full_path, removed, 1)
        kept_entries == SelectSeq2(index.entries,
                                   [i \in 1..Len(index.entries) |-> ~removed[i]], 1)
    IN  IF ~index.ok THEN [ok |-> FALSE, fs |-> f]
        ELSE IF \E i \in 1..Len(paths) :
                    ~abs[i].ok \/ ~IsPrefix(Worktree, abs[i].path)
        THEN [ok |-> FALSE, fs |-> f]
        ELSE IF \E i \in 1..Len(paths) :
                    ~InSeq(relpaths[i], remove_files) /\ ~skip_missing
        THEN [ok |-> FALSE, fs |-> f]
        ELSE LET d == IF delete THEN RemoveFiles(f, remove_files)
                      ELSE [ok |-> TRUE, fs |-> f]
             IN  IF ~d.ok THEN d ELSE write_index(d.fs, kept_entries)

rm(f, paths, delete, skip_missing) ==
    RmEntries(f, paths, delete, skip_missing, read_index(f))

RegularFileMode == 32768 + 420

\* The loop of add over the cleaned paths: read the file, hash and store
\* the blob (h), push the entry.  ftime is the file time the metadata
\* reports.
RECURSIVE AddEntries(_, _, _, _)
RECURSIVE PushEntry(_, _, _, _, _)

PushEntry(abspaths, entries, ftime, data, h) ==
    IF ~h.ok THEN [ok |-> FALSE, fs |-> h.fs, entries |-> entries]
    ELSE AddEntries(h.fs, Tail(abspaths),
            Append(entries,
                   [ctime |-> ftime, mtime |-> ftime, dev |-> 0, ino |-> 0,
                    mode |-> RegularFileMode, uid |-> 0, gid |-> 0,
                    size |-> Len(data), sha |-> h.sha, flags |-> 0,
                    path |-> PathToStr(StripPrefix(abspaths[1]))]),
            ftime)

AddEntries(f, abspaths, entries, ftime) ==
    IF abspaths = <<>> THEN [ok |-> TRUE, fs |-> f, entries |-> entries]
    ELSE IF ~IsFile(f, abspaths[1]) THEN [ok |-> FALSE, fs |-> f, entries |-> entries]
    ELSE PushEntry(abspaths, entries, ftime, f.files[abspaths[1]],
                   object_hash(f, f.files[abspaths[1]], "blob"))

\* The end of add: the index is written back.
WriteAdded(a) ==
    IF ~a.ok THEN [ok |-> FALSE, fs |-> a.fs] ELSE write_index(a.fs, a.entries)

\* add after its call of rm, which gave r.
AddAfterRm(r, paths, ftime, index) ==
    LET abs == [i \in 1..Len(paths) |-> Canonicalize(r.fs, paths[i])]
    IN  IF ~r.ok THEN r
        ELSE IF \E i \in 1..Len(paths) :
                    ~abs[i].ok \/ ~IsPrefix(Worktree, abs[i].path)
                    \/ ~IsFile(r.fs, abs[i].path)
        THEN [ok |-> FALSE, fs |-> r.fs]
        ELSE IF ~index.ok THEN [ok |-> FALSE, fs |-> r.fs]
        ELSE WriteAdded(AddEntries(r.fs, [i \in 1..Len(paths) |-> abs[i].path],
                                   index.entries, ftime))

\* add(repo, paths)
AddRm(r, paths, ftime) == AddAfterRm(r, paths, ftime, read_index(r.fs))

add(f, paths, ftime) == AddRm(rm(f, paths, FALSE, TRUE), paths, ftime)

----------------------------------------------------------------------------
(* tree_from_index                                                         *)

Mode100644 == <<"1", "0", "0", "6", "4", "4">>
Mode40000 == <<"4", "0", "0", "0", "0">>

\* str::cmp: byte-wise lexicographic order
BytesLess(a, b) ==
    \E i \in 1..(Len(b)) :
        /\ \A k \in 1..(i - 1) : k <= Len(a) /\ a[k] = b[k]
        /\ i > Len(a) \/ CodeOf[a[i]] < CodeOf[b[i]]

\* entries.sort_by(|a, b| a.path.cmp(&b.path)): a stable sort
RECURSIVE InsertByPath(_, _)
InsertByPath(sorted, e) ==
    IF sorted = <<>> THEN <<e>>
    ELSE IF BytesLess(e.path, sorted[Len(sorted)].path)
    THEN Append(InsertByPath(SubSeq(sorted, 1, Len(sorted) - 1), e),
                sorted[Len(sorted)])
    ELSE Append(sorted, e)

RECURSIVE SortByPath(_)
SortByPath(entries) ==
    IF entries = <<>> THEN <<>>
    ELSE InsertByPath(SortByPath(SubSeq(entries, 1, Len(entries) - 1)),
                      entries[Len(entries)])

\* The keys of the BTreeMap dirs, in the order its iteration gives them.
RECURSIVE SortedNames(_)
SortedNames(names) ==
    IF names = {} THEN <<>>
    ELSE LET least == CHOOSE n \in names : \A m \in names \ {n} : BytesLess(n, m)
         IN  <<least>> \o SortedNames(names \ {least})

\* One tree for the whole index, every entry a leaf named by its whole path.
build_tree_flat(f, prefix, entries) ==
    object_write(f,
        Tree(SortByPath([i \in 1..Len(entries) |->
                            [mode |-> Mode100644, path |-> entries[i].path,
                             sha |-> HexDecode(entries[i].sha).raw]])),
        "tree", TRUE)

\* build_tree(repo, prefix, index)
RECURSIVE build_tree(_, _, _)
RECURSIVE BuildSubtrees(_, _, _, _, _)

BuildSubtrees(f, prefix, entries, dirnames, leaves) ==
    IF dirnames = <<>> THEN [ok |-> TRUE, fs |-> f, leaves |-> leaves]
    ELSE LET sub == build_tree(f, Append(prefix, dirnames[1]), entries)
             raw == HexDecode(sub.sha)
         IN  IF ~sub.ok \/ ~raw.ok \/ Len(raw.raw) # 20
             THEN [ok |-> FALSE, fs |-> sub.fs, leaves |-> leaves]
             ELSE BuildSubtrees(sub.fs, prefix, entries, Tail(dirnames),
                    Append(leaves, [mode |-> Mode40000, path |-> dirnames[1],
                                    sha |-> raw.raw]))

build_tree(f, prefix, entries) ==
    LET comps == [i \in 1..Len(entries) |-> PathFromStr(entries[i].path)]
        under == [i \in 1..Len(entries) |-> IsPrefix(prefix, comps[i])]
        rel == [i \in 1..Len(entries) |-> Drop(comps[i], Len(prefix))]
        direct == [i \in 1..Len(entries) |-> under[i] /\ Len(rel[i]) = 1]
        files == SelectSeq2(
                    [i \in 1..Len(entries) |->
                        [mode |-> Mode100644,
                         path |-> IF rel[i] = <<>> THEN <<>> ELSE PathToStr(rel[i]),
                         sha |-> HexDecode(entries[i].sha).raw]],
                    direct, 1)
        dirs == {rel[i][1] : i \in {k \in 1..Len(entries) : under[k] /\ Len(rel[k]) > 1}}
        subtrees == BuildSubtrees(f, prefix, entries, SortedNames(dirs), files)
    IN  IF \E i \in 1..Len(entries) :
                under[i] /\ (rel[i] = <<>>
                             \/ (direct[i] /\ (~HexDecode(entries[i].sha).ok
                                               \/ Len(entries[i].sha) # 40)))
        THEN [ok |-> FALSE, fs |-> f, create |-> f, sha |-> <<>>]
        ELSE IF ~subtrees.ok
        THEN [ok |-> FALSE, fs |-> subtrees.fs, create |-> subtrees.fs, sha |-> <<>>]
        ELSE object_write(subtrees.fs, Tree(SortByPath(subtrees.leaves)), "tree", TRUE)

\* tree_from_index(repo, index)
tree_from_index(f, entries) == build_tree(f, <<>>, entries)

----------------------------------------------------------------------------
(* commit                                                                  *)

KeyTree == <<"t", "r", "e", "e">>
KeyParent == <<"p", "a", "r", "e", "n", "t">>
KeyAuthor == <<"a", "u", "t", "h", "o", "r">>
KeyCommitter == <<"c", "o", "m", "m", "i", "t", "t", "e", "r">>

Tz == <<"+", "0", "0", "0", "0">>

\* hex::decode_to_slice(&entry.sha, &mut [0u8; 20])
DecodeSha(hex) ==
    IF Len(hex) = 40 THEN HexDecode(hex) ELSE [ok |-> FALSE, raw |-> <<>>]

\* write_tree in commit.rs: one tree with a leaf per index entry, the
\* entry's whole path as its name.
write_tree(f, entries) ==
    IF \E i \in 1..Len(entries) : ~DecodeSha(entries[i].sha).ok
    THEN [ok |-> FALSE, fs |-> f, create |-> f, sha |-> <<>>]
    ELSE object_write(f,
            Tree([i \in 1..Len(entries) |->
                    [mode |-> Mode100644, path |-> entries[i].path,
                     sha |-> DecodeSha(entries[i].sha).raw]]),
            "tree", TRUE)

\* CommitParent taking the content of HEAD for a hash, the symbolic ref
\* not followed.
CommitParentOfHead(f) ==
    LET target == Trim(ReadFile(f, Gitdir \o <<HEAD>>).data)
    IN  IF Len(target) = 40 THEN [ok |-> TRUE, some |-> TRUE, sha |-> target]
        ELSE [ok |-> TRUE, some |-> FALSE, sha |-> <<>>]

\* The parent of the new commit, read through HEAD.
CommitParent(f) ==
    LET head_ref == Gitdir \o <<HEAD>>
        target == Trim(ReadFile(f, head_ref).data)
    IN  IF ~Exists(f, head_ref) THEN [ok |-> TRUE, some |-> FALSE, sha |-> <<>>]
        ELSE IF ~IsFile(f, head_ref) THEN [ok |-> FALSE, some |-> FALSE, sha |-> <<>>]
        ELSE IF StartsWith(target, <<"r", "e", "f", ":">>)
        THEN IF ~StartsWith(target, RefPrefix)
             THEN [ok |-> FALSE, some |-> FALSE, sha |-> <<>>]
             ELSE LET r == resolve_ref(f, Drop(target, 5))
                  IN  [ok |-> TRUE, some |-> r.ok, sha |-> r.sha]
        ELSE IF Len(target) = 40 THEN [ok |-> TRUE, some |-> TRUE, sha |-> target]
        ELSE [ok |-> TRUE, some |-> FALSE, sha |-> <<>>]

\* ref_create(repo, name, sha): the ref file <gitdir>/<name> holds sha and
\* a line feed.
ref_create(f, name, sha) == WriteFile(f, Gitdir \o PathFromStr(name), sha \o <<LF>>)

\* UpdateRef writing the hash into HEAD, whatever HEAD holds.
UpdateRefDetached(f, commit_sha) ==
    WriteFile(f, Gitdir \o <<HEAD>>, commit_sha \o <<LF>>)

\* Step 7 of commit: update the ref HEAD names, or HEAD itself.
UpdateRef(f, commit_sha) ==
    LET head_ref == Gitdir \o <<HEAD>>
        target == Trim(ReadFile(f, head_ref).data)
    IN  IF Exists(f, head_ref)
        THEN IF ~IsFile(f, head_ref) THEN [ok |-> FALSE, fs |-> f]
             ELSE IF StartsWith(target, <<"r", "e", "f", ":">>)
             THEN IF ~StartsWith(target, RefPrefix) THEN [ok |-> FALSE, fs |-> f]
                  ELSE ref_create(f, Drop(target, 5), commit_sha)
             ELSE WriteFile(f, head_ref, commit_sha \o <<LF>>)
        ELSE LET h == WriteFile(f, head_ref, HeadDefault)
             IN  IF ~h.ok THEN h
                 ELSE ref_create(h.fs, HEADS \o <<"/">> \o MASTER, commit_sha)

\* The KVLM of the new commit.
CommitKvlm(tree_sha, parent, author, timestamp, message) ==
    [headers |->
        <<<<KeyTree, tree_sha>>>>
        \o (IF parent.some THEN <<<<KeyParent, parent.sha>>>> ELSE <<>>)
        \o <<<<KeyAuthor, author \o <<SP>> \o Decimal(timestamp) \o <<SP>> \o Tz>>,
             <<KeyCommitter, author \o <<SP>> \o Decimal(timestamp) \o <<SP>> \o Tz>>>>,
     message |-> message]

\* commit::run(message) in its steps.  user is the identity the user's git
\* config gives ([some, name]) and timestamp the clock's reading.

\* 7. Update ref, c being what object_write gave for the commit.
CommitRef(c, u) ==
    IF ~c.ok THEN [ok |-> FALSE, fs |-> c.fs, sha |-> <<>>]
    ELSE [ok |-> u.ok, fs |-> u.fs, sha |-> c.sha]

CommitWritten(c) == CommitRef(c, UpdateRef(c.fs, c.sha))

\* 5. and 6. Author and commit object, t being what write_tree gave.
CommitObject(t, parent, message, user, timestamp) ==
    IF ~parent.ok \/ ~user.some THEN [ok |-> FALSE, fs |-> t.fs, sha |-> <<>>]
    ELSE CommitWritten(
            object_write(t.fs,
                Commit(CommitKvlm(t.sha, parent, user.name, timestamp, message)),
                "commit", TRUE))

\* 4. Find parent commit.
CommitTree(t, message, user, timestamp) ==
    IF ~t.ok THEN [ok |-> FALSE, fs |-> t.fs, sha |-> <<>>]
    ELSE CommitObject(t, CommitParent(t.fs), message, user, timestamp)

\* 3. Write tree.
CommitIndex(f, index, message, user, timestamp) ==
    IF ~index.ok THEN [ok |-> FALSE, fs |-> f, sha |-> <<>>]
    ELSE CommitTree(write_tree(f, index.entries), message, user, timestamp)

commit(f, message, user, timestamp) ==
    IF ~repo_find(f) THEN [ok |-> FALSE, fs |-> f, sha |-> <<>>]
    ELSE CommitIndex(f, read_index(f), message, user, timestamp)

----------------------------------------------------------------------------
(* checkout                                                                *)

\* checkout_tree(repo, sha, path) and its loop over the entries of the
\* tree; otype is the type object_read gave for the tree itself.
RECURSIVE checkout_tree(_, _, _)
RECURSIVE CheckoutTreeRead(_, _, _)
RECURSIVE CheckoutEntries(_, _, _, _, _)
RECURSIVE CheckoutBlob(_, _, _, _, _, _)
RECURSIVE CheckoutNext(_, _, _, _, _)

\* The rest of the loop after an entry that gave r.
CheckoutNext(r, otype, entries, i, path) ==
    IF r.ok THEN CheckoutEntries(r.fs, otype, entries, i + 1, path) ELSE r

\* An entry of mode "10" or "12", o being what object_read gave for its
\* sha: the check is of otype, the type of the tree.
CheckoutBlob(f, o, otype, entries, i, path) ==
    IF ~o.ok \/ otype # "blob" \/ o.type # "blob"
    THEN [ok |-> FALSE, fs |-> f]
    ELSE CheckoutNext(WriteFile(f, path \o PathFromStr(entries[i].path), o.obj.data),
                      otype, entries, i, path)

CheckoutEntries(f, otype, entries, i, path) ==
    IF i > Len(entries) THEN [ok |-> TRUE, fs |-> f]
    ELSE LET entry_sha == HexEncode(entries[i].sha)
             entry_path == path \o PathFromStr(entries[i].path)
             m == entries[i].mode
         IN  IF StartsWith(m, <<"0", "4">>)
             THEN CheckoutNext(checkout_tree(f, entry_sha, entry_path),
                               otype, entries, i, path)
             ELSE IF StartsWith(m, <<"1", "0">>) \/ StartsWith(m, <<"1", "2">>)
             THEN CheckoutBlob(f, object_read(f, entry_sha), otype, entries, i, path)
             ELSE IF StartsWith(m, <<"1", "6">>)
             THEN CheckoutNext(WriteFile(f, entry_path, entry_sha),
                               otype, entries, i, path)
             ELSE [ok |-> FALSE, fs |-> f]

\* o is what object_read gave for the sha of the tree.
CheckoutTreeRead(f, o, path) ==
    LET d == CreateDirAll(f, path)
    IN  IF ~o.ok \/ o.type # "tree" THEN [ok |-> FALSE, fs |-> f]
        ELSE IF ~d.ok THEN d
        ELSE CheckoutEntries(d.fs, o.type, o.obj.entries, 1, path)

checkout_tree(f, sha, path) == CheckoutTreeRead(f, object_read(f, sha), path)

\* checkout::run asking object_find for a commit.
CheckoutExpectedCommit == "commit"

\* The type checkout::run asks object_find for.
CheckoutExpected == "blob"

\* The worktree entry checkout::run leaves in place.
CheckoutKeeps == RUST_GIT

\* The removal loop of checkout::run over the entries of the worktree.
RECURSIVE RemoveEntries(_, _)
RemoveEntries(f, todo) ==
    IF todo = {} THEN [ok |-> TRUE, fs |-> f]
    ELSE LET p == CHOOSE q \in todo : TRUE
             r == IF IsDir(f, p) THEN RemoveDirAll(f, p) ELSE RemoveFile(f, p)
         IN  IF ~r.ok THEN r ELSE RemoveEntries(r.fs, todo \ {p})

\* checkout::run(commit) in its steps: the removal loop and checkout_tree,
\* tree_sha being the tree header of the commit.
CheckoutCleared(cleared, tree_sha) ==
    IF ~cleared.ok THEN cleared
    ELSE checkout_tree(cleared.fs, tree_sha, Worktree)

CheckoutTree(f, tree_sha) ==
    IF ~tree_sha.some THEN [ok |-> FALSE, fs |-> f]
    ELSE CheckoutCleared(
            RemoveEntries(f, {p \in ReadDir(f, Worktree) : p[Len(p)] # CheckoutKeeps}),
            tree_sha.value)

\* o is what object_read gave for the name found.
CheckoutCommit(f, o) ==
    IF ~o.ok \/ o.type # "commit" THEN [ok |-> FALSE, fs |-> f]
    ELSE CheckoutTree(f, KvlmGet(o.obj.kvlm, KeyTree))

\* found is what object_find gave.
CheckoutFound(f, found) ==
    IF ~found.ok THEN [ok |-> FALSE, fs |-> f]
    ELSE CheckoutCommit(f, object_read(f, found.sha))

checkout(f, name) ==
    IF ~repo_find(f) THEN [ok |-> FALSE, fs |-> f]
    ELSE CheckoutFound(f, object_find(f, name, CheckoutExpected))

----------------------------------------------------------------------------
(* hash-object                                                             *)

\* hash_object::run(write, type, file): create is the state in which
\* object_write has created the object file and not yet written it.
hash_object(f, write, type_name, file) ==
    LET data == ReadFile(f, Worktree \o file)
    IN  IF type_name # "blob" \/ ~data.ok
        THEN [ok |-> FALSE, fs |-> f, create |-> f, sha |-> <<>>]
        ELSE object_write(f, Blob(data.data), type_name, write)

----------------------------------------------------------------------------
(* The state machine                                                       *)

\* The entries the index may hold, in the staging machine and in the
\* machines that also commit; the object files a commit may start from;
\* the paths of one command line.
MaxIndex == 2
MaxStaged == 1
MaxObjects == 5
MaxArgs == 1

A_TXT == <<"a", ".", "t", "x", "t">>
HI == <<"h", "i", LF>>
BYE == <<"b", "y", "e", LF>>

\* The files the user edits and names on the command line, relative to the
\* worktree, and the bytes the user puts in them.
UserPaths == {<<A_TXT>>, <<<<"b">>, <<"c">>>>}
Edits == {<<<<A_TXT>>, HI>>, <<<<A_TXT>>, BYE>>, <<<<<<"b">>, <<"c">>>>, HI>>}

Author == <<"A", SP, "<", "a", "@", "x", ">">>
Configured == [some |-> TRUE, name |-> Author]
UserConfigs == {Configured, [some |-> FALSE, name |-> <<>>]}
Timestamps == {1}
Messages == {<<"x">>}
FileTimes == {7}

ArgLists == UNION {[1..n -> UserPaths] : n \in 1..MaxArgs}

ObjectFiles(f) ==
    {q \in DOMAIN f.files :
        Len(q) = Len(Gitdir) + 3 /\ IsPrefix(Gitdir \o <<OBJECTS>>, q)}

ObjectIds(f) == {q[Len(q) - 1] \o q[Len(q)] : q \in ObjectFiles(f)}

\* The names a user gives to checkout.
Names(f) == {HEAD} \cup ObjectIds(f)

Result(cmd, arg, ok, out) == [cmd |-> cmd, arg |-> arg, ok |-> ok, out |-> out]

Idle == pending = <<>>

Init ==
    /\ fs = [files |-> <<>>, dirs |-> {<<ROOT>>, Worktree}]
    /\ last = Result("none", <<>>, TRUE, <<>>)
    /\ pending = <<>>

\* init
Create ==
    /\ Idle
    /\ \E r \in {RepositoryCreate(fs)} :
          /\ fs' = r.fs
          /\ last' = Result("init", <<>>, r.ok, <<>>)
    /\ UNCHANGED pending

\* The user writes a file of the worktree with an editor.
EditFile(path, data) ==
    /\ Idle
    /\ \E d \in {CreateDirAll(fs, Worktree \o Parent(path))} :
          /\ d.ok
          /\ \E w \in {WriteFile(d.fs, Worktree \o path, data)} :
                w.ok /\ fs' = w.fs
    /\ last' = Result("edit", path, TRUE, <<>>)
    /\ UNCHANGED pending

\* add paths..., while the index has room for the new entries
Add(limit, paths, ftime) ==
    /\ Idle
    /\ \E index \in {read_index(fs)} :
          index.ok => Len(index.entries) + Len(paths) <= limit
    /\ \E r \in {IF repo_find(fs) THEN add(fs, paths, ftime)
                  ELSE [ok |-> FALSE, fs |-> fs]} :
          /\ fs' = r.fs
          /\ last' = Result("add", paths, r.ok, <<>>)
    /\ UNCHANGED pending

\* rm paths...
Rm(paths) ==
    /\ Idle
    /\ \E r \in {IF repo_find(fs) THEN rm(fs, paths, TRUE, FALSE)
                  ELSE [ok |-> FALSE, fs |-> fs]} :
          /\ fs' = r.fs
          /\ last' = Result("rm", paths, r.ok, <<>>)
    /\ UNCHANGED pending

\* commit -m message
CommitCmd(message, user, timestamp) ==
    /\ Idle
    /\ Cardinality(ObjectFiles(fs)) + 2 <= MaxObjects
    /\ \E r \in {commit(fs, message, user, timestamp)} :
          /\ fs' = r.fs
          /\ last' = Result("commit", message, r.ok, r.sha)
    /\ UNCHANGED pending

\* checkout name
Checkout(name) ==
    /\ Idle
    /\ \E r \in {checkout(fs, name)} :
          /\ fs' = r.fs
          /\ last' = Result("checkout", name, r.ok, <<>>)
    /\ UNCHANGED pending

\* hash-object [-w] file, until object_write has created the object file
\* (with -w) or to its end (without).
HashObject(write, file) ==
    /\ Idle
    /\ \E r \in {IF repo_find(fs) THEN hash_object(fs, write, "blob", file)
                  ELSE [ok |-> FALSE, fs |-> fs, create |-> fs, sha |-> <<>>]} :
          /\ fs' = r.create
          /\ IF r.ok /\ write
             THEN /\ pending' = <<[fs |-> r.fs, sha |-> r.sha, file |-> file]>>
                  /\ UNCHANGED last
             ELSE /\ pending' = <<>>
                  /\ last' = Result(IF write THEN "hash-object -w" ELSE "hash-object",
                                    file, r.ok, r.sha)

\* hash-object -w: write_all puts the compressed frame into the object file
HashObjectWriteAll ==
    /\ ~Idle
    /\ fs' = pending[1].fs
    /\ last' = Result("hash-object -w", pending[1].file, TRUE, pending[1].sha)
    /\ pending' = <<>>

\* A call of object_hash(repo, data, blob) on the bytes of a worktree file.
ObjectHash(file) ==
    /\ Idle
    /\ repo_find(fs)
    /\ IsFile(fs, Worktree \o file)
    /\ \E r \in {object_hash(fs, fs.files[Worktree \o file], "blob")} :
          /\ fs' = r.fs
          /\ last' = Result("object_hash", file, r.ok, r.sha)
    /\ UNCHANGED pending

Next ==
    \/ Create
    \/ \E e \in Edits : EditFile(e[1], e[2])
    \/ \E paths \in ArgLists, ftime \in FileTimes : Add(MaxStaged, paths, ftime)
    \/ \E paths \in ArgLists : Rm(paths)
    \/ \E m \in Messages, u \in UserConfigs, t \in Timestamps : CommitCmd(m, u, t)
    \/ \E name \in Names(fs) : Checkout(name)
    \/ \E write \in BOOLEAN, file \in UserPaths : HashObject(write, file)
    \/ HashObjectWriteAll
    \/ \E file \in UserPaths : ObjectHash(file)

Spec == Init /\ [][Next]_vars

\* The staging commands alone.
NextIndex ==
    \/ Create
    \/ \E e \in Edits : EditFile(e[1], e[2])
    \/ \E paths \in ArgLists, ftime \in FileTimes : Add(MaxIndex, paths, ftime)
    \/ \E paths \in ArgLists : Rm(paths)

SpecIndex == Init /\ [][NextIndex]_vars

\* Staging, commit and checkout, of a user whose git config names them.
NextCheckout ==
    \/ Create
    \/ \E e \in Edits : EditFile(e[1], e[2])
    \/ \E paths \in ArgLists, ftime \in FileTimes : Add(MaxStaged, paths, ftime)
    \/ \E m \in Messages, t \in Timestamps : CommitCmd(m, Configured, t)
    \/ \E name \in Names(fs) : Checkout(name)

SpecCheckout == Init /\ [][NextCheckout]_vars

\* Staging and commit.
NextCommit ==
    \/ Create
    \/ \E e \in Edits : EditFile(e[1], e[2])
    \/ \E paths \in ArgLists, ftime \in FileTimes : Add(MaxStaged, paths, ftime)
    \/ \E m \in Messages, u \in UserConfigs, t \in Timestamps : CommitCmd(m, u, t)

SpecCommit == Init /\ [][NextCommit]_vars

\* The object store commands alone.
NextObjects ==
    \/ Create
    \/ \E e \in Edits : EditFile(e[1], e[2])
    \/ \E write \in BOOLEAN, file \in UserPaths : HashObject(write, file)
    \/ HashObjectWriteAll
    \/ \E file \in UserPaths : ObjectHash(file)

SpecObjects == Init /\ [][NextObjects]_vars

----------------------------------------------------------------------------
(* The functions of the library on their own                               *)

\* The objects in the store of the machine that calls object_write and
\* object_read directly.
MaxStored == 3

SimpleKvlm == [headers |-> <<<<KeyTree, <<"x">>>>>>, message |-> <<"m", LF>>]

TagObject(kvlm) == [type |-> "tag", kvlm |-> kvlm]

\* Objects of every kind, each with a payload valid for its kind.
StoreObjects ==
    {Blob(<<>>), Blob(HI), Blob(BYE),
     Tree(<<>>),
     Tree(<<[mode |-> Mode100644, path |-> A_TXT,
             sha |-> Sha1(Frame(Blob(HI), "blob"))]>>),
     Commit(SimpleKvlm), Commit(EmptyKvlm),
     TagObject(SimpleKvlm)}

\* A call of object_write(repo, obj, kind, true).
ObjectWrite(obj) ==
    /\ Idle
    /\ repo_find(fs)
    /\ Cardinality(ObjectFiles(fs)) < MaxStored
    /\ \E r \in {object_write(fs, obj, obj.type, TRUE)} :
          /\ fs' = r.fs
          /\ last' = Result("object_write", obj, r.ok, r.sha)
    /\ UNCHANGED pending

\* A call of object_read(repo, sha) on an object of the store.
ObjectRead(sha) ==
    /\ Idle
    /\ repo_find(fs)
    /\ \E r \in {object_read(fs, sha)} :
          last' = Result("object_read", sha, r.ok, r)
    /\ UNCHANGED <<fs, pending>>

NextStore ==
    \/ Create
    \/ \E obj \in StoreObjects : ObjectWrite(obj)
    \/ \E sha \in ObjectIds(fs) : ObjectRead(sha)

SpecStore == Init /\ [][NextStore]_vars

\* Frames an object file may hold: well-formed ones, one without NUL, one
\* of an unknown kind, and ones whose declared length is not the length of
\* the payload.
StoredFrames ==
    {FrameOf("blob", HI),
     TypeName("blob") \o <<SP, "3", SP>> \o HI,
     <<"b", "l", "u", "b", SP, "3", NUL>> \o HI,
     TypeName("blob") \o <<SP, "5", NUL>> \o HI,
     TypeName("blob") \o <<SP, "2", NUL>> \o HI,
     FrameOf("tree", <<>>),
     TypeName("tree") \o <<SP, "9", NUL>>,
     FrameOf("commit", <<LF>>),
     TypeName("commit") \o <<SP, "0", NUL, LF>>}

\* An object file objects/<hh>/<rest> holding zlib(frame) is in the store,
\* whoever wrote it.
StoreFrame(frame) ==
    /\ Idle
    /\ repo_find(fs)
    /\ Cardinality(ObjectFiles(fs)) < MaxStored
    /\ \E r \in {WriteObjectFile(fs, frame, HexEncode(Sha1(frame)), TRUE)} :
          /\ r.ok
          /\ fs' = r.fs
          /\ last' = Result("store", frame, TRUE, r.sha)
    /\ UNCHANGED pending

NextFrames ==
    \/ Create
    \/ \E frame \in StoredFrames : StoreFrame(frame)
    \/ \E sha \in ObjectIds(fs) : ObjectRead(sha)

SpecFrames == Init /\ [][NextFrames]_vars

\* kvlm_parse and kvlm_serialize on their own.  The input is drawn at the
\* start: a record to serialize and parse back, or raw bytes to parse.
MaxHeaders == 2
MaxRaw == 4

KvlmKeys == {<<>>, <<"k">>, <<"p">>}
KvlmValues ==
    {<<>>, <<"a">>, <<LF>>, <<SP, "a">>, <<"a", LF>>, <<LF, "a">>, <<LF, SP>>,
     <<LF, LF>>, <<"a", LF, SP, "a">>, <<"a", SP>>}
KvlmMessages == {<<>>, <<"m", LF>>, <<SP, "m">>, <<LF, "k", SP, "a", LF>>}
KvlmHeaders == KvlmKeys \X KvlmValues
KvlmRecords ==
    {[headers |-> hs, message |-> m] :
        hs \in UNION {[1..n -> KvlmHeaders] : n \in 0..MaxHeaders},
        m \in KvlmMessages}
KvlmRaw == UNION {[1..n -> {"k", SP, LF}] : n \in 0..MaxRaw}

InitKvlm ==
    /\ fs = [files |-> <<>>, dirs |-> {<<ROOT>>, Worktree}]
    /\ pending = <<>>
    /\ \/ \E k \in KvlmRecords : last = Result("record", k, TRUE, <<>>)
       \/ \E raw \in KvlmRaw : last = Result("raw", raw, TRUE, <<>>)

\* kvlm_parse(kvlm_serialize(k))
KvlmRoundTrip ==
    /\ last.cmd = "record"
    /\ \E r \in {kvlm_parse(kvlm_serialize(last.arg))} :
          last' = Result("kvlm_roundtrip", last.arg, r.ok, r.kvlm)
    /\ UNCHANGED <<fs, pending>>

\* kvlm_parse(raw)
KvlmParse ==
    /\ last.cmd = "raw"
    /\ \E r \in {kvlm_parse(last.arg)} :
          last' = Result("kvlm_parse", last.arg, r.ok, r.kvlm)
    /\ UNCHANGED <<fs, pending>>

NextKvlm == KvlmRoundTrip \/ KvlmParse

SpecKvlm == InitKvlm /\ [][NextKvlm]_vars

\* write_index and read_index on their own, in a new repository.  The index
\* to write is drawn at the start.
MaxPathLen == 8

IndexPaths == {[i \in 1..n |-> "z"] : n \in 0..MaxPathLen} \cup {<<"b", "/", "c">>}
IndexStats ==
    {[ctime |-> 0, mtime |-> 1, dev |-> 0, ino |-> 0, mode |-> 33188, uid |-> 0,
      gid |-> 0, size |-> 3, sha |-> [i \in 1..40 |-> "0"], flags |-> 0],
     [ctime |-> 2147483647, mtime |-> 16777472, dev |-> 2049, ino |-> 65536,
      mode |-> 33261, uid |-> 1000, gid |-> 256, size |-> 65535,
      sha |-> HexEncode(Sha1(Frame(Blob(HI), "blob"))), flags |-> 515]}
IndexEntry(st, path) ==
    [ctime |-> st.ctime, mtime |-> st.mtime, dev |-> st.dev, ino |-> st.ino,
     mode |-> st.mode, uid |-> st.uid, gid |-> st.gid, size |-> st.size,
     sha |-> st.sha, flags |-> st.flags, path |-> path]
IndexEntryChoices == {IndexEntry(st, path) : st \in IndexStats, path \in IndexPaths}
Indexes == UNION {[1..n -> IndexEntryChoices] : n \in 0..MaxIndex}

InitIndex ==
    /\ fs = RepositoryCreate([files |-> <<>>, dirs |-> {<<ROOT>>, Worktree}]).fs
    /\ pending = <<>>
    /\ \E entries \in Indexes : last = Result("index", entries, TRUE, <<>>)

\* write_index(repo, index), then read_index(repo)
IndexRoundTrip ==
    /\ last.cmd = "index"
    /\ \E w \in {write_index(fs, last.arg)} :
          /\ fs' = w.fs
          /\ \E r \in {read_index(w.fs)} :
                last' = Result("index_roundtrip", last.arg, w.ok /\ r.ok, r.entries)
    /\ UNCHANGED pending

NextIndexFile == IndexRoundTrip

SpecIndexFile == InitIndex /\ [][NextIndexFile]_vars

\* tree_from_index on its own, in a new repository.  The index is drawn at
\* the start: entries with distinct paths, in any order.
TreePaths ==
    {<<"a">>, <<"a", ".", "b">>, <<"a", "/", "c">>, <<"a", "/", "d", "/", "e">>,
     <<"b", "/", "c">>, <<"c">>}
TreeEntryChoices == {IndexEntry(st, path) : st \in IndexStats, path \in TreePaths}
TreeIndexes ==
    {es \in UNION {[1..n -> TreeEntryChoices] : n \in 0..MaxIndex} :
        \A i, j \in 1..Len(es) : es[i].path = es[j].path => i = j}

InitTree ==
    /\ fs = RepositoryCreate([files |-> <<>>, dirs |-> {<<ROOT>>, Worktree}]).fs
    /\ pending = <<>>
    /\ \E entries \in TreeIndexes : last = Result("index", entries, TRUE, <<>>)

\* tree_from_index(repo, index)
TreeFromIndex ==
    /\ last.cmd = "index"
    /\ \E r \in {tree_from_index(fs, last.arg)} :
          /\ fs' = r.fs
          /\ last' = Result("tree_from_index", last.arg, r.ok, r.sha)
    /\ UNCHANGED pending

NextTree == TreeFromIndex

SpecTree == InitTree /\ [][NextTree]_vars

\* Abbreviated hashes.  The store holds objects under hashes that share
\* their first characters, as SHA-1 hashes of real objects may.
Sha40(prefix) == prefix \o [i \in 1..(40 - Len(prefix)) |-> "0"]
NamedShas ==
    {Sha40(<<"a", "b", "c", "d", "0">>), Sha40(<<"a", "b", "c", "d", "1">>),
     Sha40(<<"a", "b", "c", "e">>), Sha40(<<"a", "b", "0", "0">>),
     Sha40(<<"1", "2", "3", "4">>)}
ShortNames ==
    {<<"a", "b", "c", "d">>, <<"a", "b", "c", "d", "0">>, <<"a", "b", "c", "d", "1">>,
     <<"a", "b", "c", "e">>, <<"a", "b", "c", "f">>, <<"a", "b", "c", "d", "2">>,
     <<"1", "2", "3", "4">>, <<"f", "f", "f", "f">>, <<"a", "b", "0", "0">>,
     SubSeq(Sha40(<<"a", "b", "c", "d", "1">>), 1, 39), Sha40(<<"a", "b", "c", "d", "1">>)}

\* An object is in the store under the hash sha.
StoreNamed(sha) ==
    /\ Idle
    /\ repo_find(fs)
    /\ Cardinality(ObjectFiles(fs)) < MaxStored
    /\ \E r \in {WriteObjectFile(fs, FrameOf("blob", sha), sha, TRUE)} :
          /\ r.ok
          /\ fs' = r.fs
          /\ last' = Result("store", sha, TRUE, r.sha)
    /\ UNCHANGED pending

\* object_resolve(repo, name) for a name of 4 to 40 hex characters
ResolveShort(name) ==
    /\ Idle
    /\ repo_find(fs)
    /\ IsHexStr(name) /\ Len(name) >= 4 /\ Len(name) <= 40
    /\ \E r \in {ResolveSha(fs, name)} :
          last' = Result("resolve_sha", name, r.ok /\ object_resolve(fs, name).ok, r)
    /\ UNCHANGED <<fs, pending>>

NextShort ==
    \/ Create
    \/ \E sha \in NamedShas : StoreNamed(sha)
    \/ \E name \in ShortNames : ResolveShort(name)

SpecShort == Init /\ [][NextShort]_vars

\* The name HEAD.  HEAD and the branch it names hold what init, commit or
\* the user have put there.
HeadContents ==
    {HeadDefault, RefPrefix \o RefsHeadsMaster,
     Sha40(<<"a", "b", "c", "d", "0">>) \o <<LF>>, Sha40(<<"1", "2", "3", "4">>),
     <<SP>> \o Sha40(<<"1", "2", "3", "4">>) \o <<SP, LF>>}
BranchContents ==
    {Sha40(<<"a", "b", "c", "d", "0">>) \o <<LF>>, Sha40(<<"1", "2", "3", "4">>),
     Sha40(<<"a", "b", "c", "e">>) \o <<LF, LF>>}
RefNames == {HEAD, MASTER, RefsHeadsMaster}

WriteRefFile(path, content) ==
    /\ Idle
    /\ repo_find(fs)
    /\ \E w \in {WriteFile(fs, path, content)} :
          /\ w.ok
          /\ fs' = w.fs
          /\ last' = Result("write", path, TRUE, content)
    /\ UNCHANGED pending

\* object_resolve(repo, name)
ObjectResolve(name) ==
    /\ Idle
    /\ repo_find(fs)
    /\ \E r \in {object_resolve(fs, name)} :
          last' = Result("object_resolve", name, r.ok, r.sha)
    /\ UNCHANGED <<fs, pending>>

\* ref_parse(repo, name)
RefParse(name) ==
    /\ Idle
    /\ repo_find(fs)
    /\ \E r \in {ref_parse(fs, name)} :
          last' = Result("ref_parse", name, r.ok, r.sha)
    /\ UNCHANGED <<fs, pending>>

NextRefs ==
    \/ Create
    \/ \E content \in HeadContents : WriteRefFile(Gitdir \o <<HEAD>>, content)
    \/ \E content \in BranchContents :
          WriteRefFile(Gitdir \o <<REFS, HEADS, MASTER>>, content)
    \/ \E name \in RefNames : ObjectResolve(name)
    \/ \E name \in RefNames : RefParse(name)

SpecRefs == Init /\ [][NextRefs]_vars


----------------------------------------------------------------------------
(* Ignore rules (git/ignore.rs).  A rule is [pattern, value]; value is     *)
(* TRUE for a rule that ignores and FALSE for a negating one.  GitIgnore   *)
(* is [absolute, scoped]: a sequence of rule sets and a function from the  *)
(* name of a directory to its rule set.                                    *)

\* WildMatch::new(pattern).matches(s): * is any run of characters, ? one.
RECURSIVE WildMatch(_, _)
WildMatch(pattern, s) ==
    IF pattern = <<>> THEN s = <<>>
    ELSE IF pattern[1] = "*"
    THEN \E n \in 0..Len(s) : WildMatch(Tail(pattern), Drop(s, n))
    ELSE IF s = <<>> THEN FALSE
    ELSE (pattern[1] = "?" \/ pattern[1] = s[1]) /\ WildMatch(Tail(pattern), Tail(s))

NoVerdict == [some |-> FALSE, value |-> FALSE]

\* check_ignore1 that stops at the first rule that matches.
check_ignore1_first(rules, path) ==
    LET hits == {i \in 1..Len(rules) : WildMatch(rules[i].pattern, path)}
    IN  IF hits = {} THEN NoVerdict
        ELSE [some |-> TRUE,
              value |-> rules[CHOOSE i \in hits : \A j \in hits : i <= j].value]

\* check_ignore1: the value of the last rule whose pattern matches path
RECURSIVE check_ignore1_loop(_, _, _)
check_ignore1_loop(rules, path, result) ==
    IF rules = <<>> THEN result
    ELSE check_ignore1_loop(Tail(rules), path,
            IF WildMatch(rules[1].pattern, path)
            THEN [some |-> TRUE, value |-> rules[1].value]
            ELSE result)

check_ignore1(rules, path) == check_ignore1_loop(rules, path, NoVerdict)

\* Path::parent and PathBuf::pop as strings
ParentStr(s) ==
    IF PathFromStr(s) = <<>> THEN <<>>
    ELSE PathToStr(SubSeq(PathFromStr(s), 1, Len(PathFromStr(s)) - 1))

\* check_ignore_scoped: the loop from parent upwards
RECURSIVE ScopedLoop(_, _, _)
ScopedLoop(rules, path, parent) ==
    IF parent \in DOMAIN rules /\ check_ignore1(rules[parent], path).some
    THEN check_ignore1(rules[parent], path)
    ELSE IF parent = <<>> THEN NoVerdict
    ELSE ScopedLoop(rules, path, ParentStr(parent))

check_ignore_scoped(rules, path) == ScopedLoop(rules, path, ParentStr(path))

RECURSIVE check_ignore_absolute(_, _)
check_ignore_absolute(rules, path) ==
    IF rules = <<>> THEN FALSE
    ELSE IF check_ignore1(rules[1], path).some THEN check_ignore1(rules[1], path).value
    ELSE check_ignore_absolute(Tail(rules), path)

\* check_ignore: [ok, ignored]
check_ignore(rules, path) ==
    IF path # <<>> /\ path[1] = "/" THEN [ok |-> FALSE, ignored |-> FALSE]
    ELSE IF check_ignore_scoped(rules.scoped, path).some
    THEN [ok |-> TRUE, ignored |-> check_ignore_scoped(rules.scoped, path).value]
    ELSE [ok |-> TRUE, ignored |-> check_ignore_absolute(rules.absolute, path)]


\* str::lines: the pieces between line feeds, without an empty last one.
RECURSIVE Lines(_)
Lines(s) ==
    IF s = <<>> THEN <<>>
    ELSE IF Position(s, LF, 1) = 0 THEN <<s>>
    ELSE <<SubSeq(s, 1, Position(s, LF, 1) - 1)>> \o Lines(Drop(s, Position(s, LF, 1)))

\* gitignore_parse1: [some, pattern, value]
gitignore_parse1(raw) ==
    IF Trim(raw) = <<>> \/ Trim(raw)[1] = "#"
    THEN [some |-> FALSE, pattern |-> <<>>, value |-> FALSE]
    ELSE IF Trim(raw)[1] = "!"
    THEN [some |-> TRUE, pattern |-> Tail(Trim(raw)), value |-> FALSE]
    ELSE IF Trim(raw)[1] = "\\"
    THEN [some |-> TRUE, pattern |-> Tail(Trim(raw)), value |-> TRUE]
    ELSE [some |-> TRUE, pattern |-> Trim(raw), value |-> TRUE]

RECURSIVE gitignore_parse(_)
gitignore_parse(lines) ==
    IF lines = <<>> THEN <<>>
    ELSE (IF gitignore_parse1(lines[1]).some
          THEN <<[pattern |-> gitignore_parse1(lines[1]).pattern,
                  value |-> gitignore_parse1(lines[1]).value]>>
          ELSE <<>>) \o gitignore_parse(Tail(lines))

INFO == <<"i", "n", "f", "o">>
EXCLUDE == <<"e", "x", "c", "l", "u", "d", "e">>
DOT_GITIGNORE == <<".", "g", "i", "t", "i", "g", "n", "o", "r", "e">>

\* $XDG_CONFIG_HOME/git/ignore
GlobalIgnore == <<ROOT, <<"c", "o", "n", "f", "i", "g">>, <<"g", "i", "t">>,
                  <<"i", "g", "n", "o", "r", "e">>>>

\* The rule sets of the files of paths that exist, in order.
RECURSIVE AbsoluteRules(_, _)
AbsoluteRules(f, paths) ==
    IF paths = <<>> THEN <<>>
    ELSE (IF Exists(f, paths[1])
          THEN <<gitignore_parse(Lines(ReadFile(f, paths[1]).data))>>
          ELSE <<>>) \o AbsoluteRules(f, Tail(paths))

IsGitignore(path) ==
    \/ path = DOT_GITIGNORE
    \/ /\ Len(path) > Len(DOT_GITIGNORE)
       /\ Drop(path, Len(path) - Len(DOT_GITIGNORE) - 1) = <<"/">> \o DOT_GITIGNORE

\* The loop of gitignore_read over the entries of the index.
RECURSIVE ScopedRules(_, _, _)
ScopedRules(f, entries, scoped) ==
    IF entries = <<>> THEN [ok |-> TRUE, scoped |-> scoped]
    ELSE IF ~IsGitignore(entries[1].path) THEN ScopedRules(f, Tail(entries), scoped)
    ELSE IF ~object_read(f, entries[1].sha).ok
    THEN [ok |-> FALSE, scoped |-> scoped]
    ELSE ScopedRules(f, Tail(entries),
            [d \in DOMAIN scoped \cup {ParentStr(entries[1].path)} |->
                IF d = ParentStr(entries[1].path)
                THEN gitignore_parse(Lines(Serialize(object_read(f, entries[1].sha).obj)))
                ELSE scoped[d]])

NoRules == [absolute |-> <<>>, scoped |-> <<>>]

\* gitignore_read: [ok, rules]
gitignore_read(f) ==
    IF IsDir(f, Gitdir \o <<INFO, EXCLUDE>>) \/ IsDir(f, GlobalIgnore)
       \/ ~read_index(f).ok
       \/ ~ScopedRules(f, read_index(f).entries, <<>>).ok
    THEN [ok |-> FALSE, rules |-> NoRules]
    ELSE [ok |-> TRUE,
          rules |-> [absolute |-> AbsoluteRules(f, <<Gitdir \o <<INFO, EXCLUDE>>,
                                                    GlobalIgnore>>),
                     scoped |-> ScopedRules(f, read_index(f).entries, <<>>).scoped]]

\* The loop of check-ignore over its paths: out is what has been printed.
RECURSIVE CheckIgnorePaths(_, _, _, _)
CheckIgnorePaths(f, rules, paths, out) ==
    IF paths = <<>> THEN [ok |-> TRUE, out |-> out]
    ELSE IF ~Canonicalize(f, paths[1]).ok
            \/ ~check_ignore(rules, PathToStr(paths[1])).ok
    THEN [ok |-> FALSE, out |-> out]
    ELSE CheckIgnorePaths(f, rules, Tail(paths),
            IF check_ignore(rules, PathToStr(paths[1])).ignored
            THEN Append(out, PathToStr(paths[1]))
            ELSE out)

\* check-ignore paths...
check_ignore_run(f, paths) ==
    IF ~repo_find(f) \/ ~gitignore_read(f).ok THEN [ok |-> FALSE, out |-> <<>>]
    ELSE CheckIgnorePaths(f, gitignore_read(f).rules, paths, <<>>)

\* check_ignore on its own.  The rules and the path are drawn at the start.
MaxAbsolute == 2

Rule(pattern, value) == [pattern |-> pattern, value |-> value]
StarLog == <<"*", ".", "l", "o", "g">>
StarXLog == <<"*", "x", ".", "l", "o", "g">>
RuleSets ==
    {<<>>, <<Rule(StarLog, TRUE)>>,
     <<Rule(StarLog, TRUE), Rule(StarXLog, FALSE)>>,
     <<Rule(StarXLog, FALSE), Rule(<<"a", "/", "*">>, TRUE)>>}
RuleDirs == {<<>>, <<"a">>, <<"a", "/", "b">>}
IgnorePaths ==
    {<<"x", ".", "l", "o", "g">>, <<"a", "/", "x", ".", "l", "o", "g">>,
     <<"a", "/", "b", "/", "x", ".", "l", "o", "g">>,
     <<"a", "/", "b", "/", "k", ".", "l", "o", "g">>, <<"k">>}
GitIgnores ==
    {[absolute |-> ab, scoped |-> sc] :
        ab \in UNION {[1..n -> RuleSets] : n \in 0..MaxAbsolute},
        sc \in UNION {[D -> RuleSets] : D \in SUBSET RuleDirs}}

InitIgnore ==
    /\ fs = [files |-> <<>>, dirs |-> {<<ROOT>>, Worktree}]
    /\ pending = <<>>
    /\ \E rules \in GitIgnores, path \in IgnorePaths :
          last = Result("rules", [rules |-> rules, path |-> path], TRUE, <<>>)

\* check_ignore(rules, path)
CheckIgnoreRules ==
    /\ last.cmd = "rules"
    /\ \E r \in {check_ignore(last.arg.rules, last.arg.path)} :
          last' = Result("check_ignore", last.arg, r.ok, r.ignored)
    /\ UNCHANGED <<fs, pending>>

NextIgnoreRules == CheckIgnoreRules

SpecIgnoreRules == InitIgnore /\ [][NextIgnoreRules]_vars


\* check-ignore in a repository.  The user writes info/exclude and files of
\* the worktree, and stages the .gitignore of a directory.
SUB == <<"s", "u", "b">>
KEEP_LOG == <<"k", "e", "e", "p", ".", "l", "o", "g">>
SubGitignore == <<SUB, DOT_GITIGNORE>>
SubKeepLog == <<SUB, KEEP_LOG>>
OtherXLog == <<<<"o", "t", "h", "e", "r">>, <<"x", ".", "l", "o", "g">>>>
NotKeepLog == <<"!">> \o KEEP_LOG \o <<LF>>
ExcludeContents == {StarLog \o <<LF>>, <<"#", "x", LF, LF, SP>> \o StarLog \o <<SP, LF>>}
IgnoreEdits ==
    {<<SubGitignore, NotKeepLog>>, <<SubGitignore, <<"!", "*">> \o KEEP_LOG \o <<LF>>>>,
     <<SubKeepLog, HI>>, <<OtherXLog, HI>>}
IgnoreArgs == UNION {[1..n -> {SubKeepLog, OtherXLog}] : n \in 1..MaxArgs}

\* The user writes .git/info/exclude.
WriteExclude(content) ==
    /\ Idle
    /\ repo_find(fs)
    /\ \E d \in {CreateDirAll(fs, Gitdir \o <<INFO>>)} :
          /\ d.ok
          /\ \E w \in {WriteFile(d.fs, Gitdir \o <<INFO, EXCLUDE>>, content)} :
                w.ok /\ fs' = w.fs
    /\ last' = Result("exclude", content, TRUE, <<>>)
    /\ UNCHANGED pending

\* check-ignore paths...
CheckIgnore(paths) ==
    /\ Idle
    /\ \E r \in {check_ignore_run(fs, paths)} :
          last' = Result("check-ignore", paths, r.ok, r.out)
    /\ UNCHANGED <<fs, pending>>

NextIgnore ==
    \/ Create
    \/ \E content \in ExcludeContents : WriteExclude(content)
    \/ \E e \in IgnoreEdits : EditFile(e[1], e[2])
    \/ \E ftime \in FileTimes : Add(MaxIndex, <<SubGitignore>>, ftime)
    \/ \E paths \in IgnoreArgs : CheckIgnore(paths)

SpecIgnore == Init /\ [][NextIgnore]_vars


----------------------------------------------------------------------------
(* tag (commands/tag.rs)                                                   *)

\* tags_dir.join(name).exists()
TagExists(f, name) ==
    \/ name \in {<<>>, <<".">>, <<".", ".">>}
    \/ Exists(f, Gitdir \o <<REFS, TAGS, name>>)

\* create_tag that writes the tag file whether or not it exists.
create_tag_overwrite(f, name, sha) ==
    IF ~repo_find(f) \/ Position(name, "/", 1) # 0 \/ name \in {<<>>, <<".">>, <<".", ".">>}
    THEN [ok |-> FALSE, fs |-> f]
    ELSE WriteFile(CreateDirAll(f, Gitdir \o <<REFS, TAGS>>).fs,
                   Gitdir \o <<REFS, TAGS, name>>, sha \o <<LF>>)

\* create_tag(name, sha)
create_tag(f, name, sha) ==
    IF ~repo_find(f) \/ Position(name, "/", 1) # 0 THEN [ok |-> FALSE, fs |-> f]
    ELSE IF ~CreateDirAll(f, Gitdir \o <<REFS, TAGS>>).ok THEN [ok |-> FALSE, fs |-> f]
    ELSE IF TagExists(CreateDirAll(f, Gitdir \o <<REFS, TAGS>>).fs, name)
    THEN [ok |-> FALSE, fs |-> CreateDirAll(f, Gitdir \o <<REFS, TAGS>>).fs]
    ELSE WriteFile(CreateDirAll(f, Gitdir \o <<REFS, TAGS>>).fs,
                   Gitdir \o <<REFS, TAGS, name>>, sha \o <<LF>>)

\* The arm Tag of main with a name: the object defaults to HEAD and is
\* handed to create_tag as it is.
tag(f, name, object) ==
    create_tag(f, name, IF object.some THEN object.name ELSE HEAD)

\* The tag command in a repository whose branch and objects come from
\* earlier commits.
V1 == <<"v", "1">>
TagNames == {V1, <<"a", "/", "b">>, <<>>}
NoArg == [some |-> FALSE, name |-> <<>>]
TagObjects ==
    {NoArg} \cup
    {[some |-> TRUE, name |-> n] :
        n \in {HEAD, MASTER, V1, <<"a", "b", "c", "d", "0">>,
               Sha40(<<"a", "b", "c", "d", "1">>)}}
TagShas == {Sha40(<<"a", "b", "c", "d", "0">>), Sha40(<<"a", "b", "c", "d", "1">>)}

\* tag name [object]
Tag(name, object) ==
    /\ Idle
    /\ \E r \in {tag(fs, name, object)} :
          /\ fs' = r.fs
          /\ last' = Result("tag", [name |-> name, object |-> object], r.ok, <<>>)
    /\ UNCHANGED pending

NextTag ==
    \/ Create
    \/ \E sha \in TagShas : StoreNamed(sha)
    \/ \E content \in BranchContents :
          WriteRefFile(Gitdir \o <<REFS, HEADS, MASTER>>, content)
    \/ \E name \in TagNames, object \in TagObjects : Tag(name, object)

SpecTag == Init /\ [][NextTag]_vars


\* init on a path that does not exist yet, is an empty directory, or holds
\* files or a directory .git the user made.
InitCreate ==
    /\ fs \in {[files |-> <<>>, dirs |-> {<<ROOT>>}],
               [files |-> <<>>, dirs |-> {<<ROOT>>, Worktree}]}
    /\ last = Result("none", <<>>, TRUE, <<>>)
    /\ pending = <<>>

\* The user makes a directory.
UserMkdir(path) ==
    /\ Idle
    /\ \E d \in {CreateDirAll(fs, path)} : d.ok /\ fs' = d.fs
    /\ last' = Result("mkdir", path, TRUE, <<>>)
    /\ UNCHANGED pending

NextCreate ==
    \/ Create
    \/ \E e \in Edits : EditFile(e[1], e[2])
    \/ \E path \in {Worktree, Gitdir, Gitdir \o <<INFO>>} : UserMkdir(path)

SpecCreate == InitCreate /\ [][NextCreate]_vars


\* add step by step: pending holds the command between its writes.  First
\* rm(repo, paths, false, true), the paths are cleaned and the index read;
\* then one blob for each path; then the index is written back.
AddStart(limit, paths, ftime) ==
    /\ Idle
    /\ \E index \in {read_index(fs)} :
          index.ok => Len(index.entries) + Len(paths) <= limit
    /\ \E r \in {IF repo_find(fs) THEN rm(fs, paths, FALSE, TRUE)
                  ELSE [ok |-> FALSE, fs |-> fs]} :
          /\ fs' = r.fs
          /\ IF /\ r.ok
                /\ \A i \in 1..Len(paths) :
                      /\ Canonicalize(r.fs, paths[i]).ok
                      /\ IsFile(r.fs, Canonicalize(r.fs, paths[i]).path)
                /\ read_index(r.fs).ok
             THEN /\ pending' = <<[cmd |-> "add", paths |-> paths,
                                   abspaths |-> [i \in 1..Len(paths) |->
                                                   Canonicalize(r.fs, paths[i]).path],
                                   entries |-> read_index(r.fs).entries,
                                   ftime |-> ftime]>>
                  /\ UNCHANGED last
             ELSE /\ pending' = <<>>
                  /\ last' = Result("add", paths, FALSE, <<>>)

AddBlob ==
    /\ ~Idle
    /\ pending[1].cmd = "add"
    /\ pending[1].abspaths # <<>>
    /\ \E a \in {AddEntries(fs, <<pending[1].abspaths[1]>>, pending[1].entries,
                            pending[1].ftime)} :
          /\ fs' = a.fs
          /\ IF a.ok
             THEN /\ pending' = <<[pending[1] EXCEPT !.abspaths = Tail(@),
                                                     !.entries = a.entries]>>
                  /\ UNCHANGED last
             ELSE /\ pending' = <<>>
                  /\ last' = Result("add", pending[1].paths, FALSE, <<>>)

AddWriteIndex ==
    /\ ~Idle
    /\ pending[1].cmd = "add"
    /\ pending[1].abspaths = <<>>
    /\ \E w \in {write_index(fs, pending[1].entries)} :
          /\ fs' = w.fs
          /\ last' = Result("add", pending[1].paths, w.ok, <<>>)
    /\ pending' = <<>>

NextAddSteps ==
    \/ Create
    \/ \E e \in Edits : EditFile(e[1], e[2])
    \/ \E paths \in ArgLists, ftime \in FileTimes : AddStart(MaxIndex, paths, ftime)
    \/ AddBlob
    \/ AddWriteIndex

SpecAddSteps == Init /\ [][NextAddSteps]_vars


\* write_index step by step.  The file is a std::fs::File, unbuffered:
\* File::create empties it, then every write_all and write_u32 is a write of
\* its own.  WriteChunks lists them in order; ok is FALSE when hex::decode
\* of a sha stops the function.
EntryChunks(e) ==
    <<U32(e.ctime), U32(0), U32(e.mtime), U32(0), U32(e.dev), U32(e.ino),
      U32(e.mode), U32(e.uid), U32(e.gid), U32(e.size)>>
    \o (IF ~HexDecode(e.sha).ok THEN <<>>
        ELSE <<HexDecode(e.sha).raw, U16(e.flags), e.path, <<NUL>>>>
             \o (IF Padding(Len(e.path)) > 0
                 THEN <<Zeros(Padding(Len(e.path)))>> ELSE <<>>))

RECURSIVE EntriesChunks(_)
EntriesChunks(es) ==
    IF es = <<>> THEN [ok |-> TRUE, chunks |-> <<>>]
    ELSE IF ~HexDecode(es[1].sha).ok
         THEN [ok |-> FALSE, chunks |-> EntryChunks(es[1])]
         ELSE LET rest == EntriesChunks(Tail(es))
              IN  [ok |-> rest.ok, chunks |-> EntryChunks(es[1]) \o rest.chunks]

WriteChunks(es) ==
    LET body == EntriesChunks(es)
    IN  [ok |-> body.ok, chunks |-> <<DIRC, U32(2), U32(Len(es))>> \o body.chunks]

\* File::create(&index_path)
WriteIndexCreate(entries) ==
    /\ Idle
    /\ \E w \in {WriteFile(fs, Gitdir \o <<INDEX>>, <<>>)} :
          /\ fs' = w.fs
          /\ IF w.ok
             THEN /\ pending' = <<[cmd |-> "write_index",
                                   old |-> read_index(fs).entries,
                                   new |-> entries,
                                   ok |-> WriteChunks(entries).ok,
                                   chunks |-> WriteChunks(entries).chunks,
                                   interrupted |-> FALSE]>>
                  /\ UNCHANGED last
             ELSE /\ pending' = <<>>
                  /\ last' = Result("write_index", entries, FALSE, <<>>)

\* The next write_all / write_u32 / write_u16 of write_index.
WriteIndexChunk ==
    /\ ~Idle
    /\ pending[1].cmd = "write_index"
    /\ ~pending[1].interrupted
    /\ \E w \in {WriteFile(fs, Gitdir \o <<INDEX>>,
                           fs.files[Gitdir \o <<INDEX>>] \o pending[1].chunks[1])} :
          /\ fs' = w.fs
          /\ IF Len(pending[1].chunks) > 1
             THEN /\ pending' = <<[pending[1] EXCEPT !.chunks = Tail(@)]>>
                  /\ UNCHANGED last
             ELSE /\ pending' = <<>>
                  /\ last' = Result("write_index", pending[1].new, pending[1].ok, <<>>)

\* The process is stopped between two writes of write_index.
WriteIndexInterrupt ==
    /\ ~Idle
    /\ pending[1].cmd = "write_index"
    /\ ~pending[1].interrupted
    /\ pending' = <<[pending[1] EXCEPT !.interrupted = TRUE]>>
    /\ UNCHANGED <<fs, last>>

\* read_index by another process, at any time; arg records the index before
\* and after the write under way, if any.
ReadIndex ==
    /\ \E r \in {read_index(fs)} :
          last' = Result("read_index",
                         IF Idle THEN [old |-> r.entries, new |-> r.entries]
                         ELSE [old |-> pending[1].old, new |-> pending[1].new],
                         r.ok, r.entries)
    /\ UNCHANGED <<fs, pending>>

WrittenPaths == {<<"a">>, <<"b", "/", "c">>}
WrittenEntries ==
    {IndexEntry([ctime |-> 1, mtime |-> 1, dev |-> 0, ino |-> 0, mode |-> 33188,
                 uid |-> 0, gid |-> 0, size |-> 3,
                 sha |-> HexEncode(Sha1(Frame(Blob(HI), "blob"))), flags |-> 0], path) :
        path \in WrittenPaths}
WrittenIndexes == UNION {[1..n -> WrittenEntries] : n \in 0..MaxIndex}

InitWriteIndex ==
    /\ fs = RepositoryCreate([files |-> <<>>, dirs |-> {<<ROOT>>, Worktree}]).fs
    /\ pending = <<>>
    /\ last = Result("none", <<>>, TRUE, <<>>)

NextWriteIndex ==
    \/ \E entries \in WrittenIndexes : WriteIndexCreate(entries)
    \/ WriteIndexChunk
    \/ WriteIndexInterrupt
    \/ ReadIndex

SpecWriteIndex == InitWriteIndex /\ [][NextWriteIndex]_vars


\* ls-tree (commands/ls_tree.rs)
mode_to_type(mode) ==
    LET prefix == IF Len(mode) = 5 THEN SubSeq(mode, 1, 1) ELSE SubSeq(mode, 1, 2)
    IN  IF Len(mode) < 2 THEN [ok |-> FALSE, type |-> "none"]
        ELSE IF prefix = <<"0", "4">> THEN [ok |-> TRUE, type |-> "tree"]
        ELSE IF prefix = <<"1", "0">> THEN [ok |-> TRUE, type |-> "blob"]
        ELSE IF prefix = <<"1", "2">> THEN [ok |-> TRUE, type |-> "blob"]
        ELSE IF prefix = <<"1", "6">> THEN [ok |-> TRUE, type |-> "commit"]
        ELSE [ok |-> FALSE, type |-> "none"]

\* format!("{:0>6}", entry.mode)
PaddedMode(mode) == [i \in 1..(6 - Len(mode)) |-> "0"] \o mode

\* ls_tree: out is the lines printed, one record for each.
RECURSIVE LsTreeEntries(_, _, _, _, _, _)
ls_tree(f, sha, recursive, prefix) ==
    LET o == object_read(f, sha)
    IN  IF ~o.ok THEN [ok |-> FALSE, out |-> <<>>]
        ELSE IF o.type # "tree" THEN [ok |-> TRUE, out |-> <<>>]
        ELSE LsTreeEntries(f, o.obj.entries, 1, recursive, prefix, <<>>)

LsTreeEntries(f, entries, i, recursive, prefix, out) ==
    IF i > Len(entries) THEN [ok |-> TRUE, out |-> out]
    ELSE LET otype == mode_to_type(entries[i].mode)
             path == prefix \o PathFromStr(entries[i].path)
         IN  IF ~otype.ok THEN [ok |-> FALSE, out |-> out]
             ELSE IF ~(recursive /\ otype.type = "Tree")
             THEN LsTreeEntries(f, entries, i + 1, recursive, prefix,
                                Append(out, [mode |-> PaddedMode(entries[i].mode),
                                             type |-> otype.type,
                                             sha |-> HexEncode(entries[i].sha),
                                             path |-> PathToStr(path)]))
             ELSE LET sub == ls_tree(f, HexEncode(entries[i].sha), recursive, path)
                  IN  IF ~sub.ok THEN [ok |-> FALSE, out |-> out \o sub.out]
                      ELSE LsTreeEntries(f, entries, i + 1, recursive, prefix,
                                         out \o sub.out)

\* The trees tree_from_index wrote, read back by checkout_tree and ls_tree.
TreeIds(f) == {sha \in ObjectIds(f) : object_read(f, sha).type = "tree"}

CheckoutTreeOf(sha) ==
    /\ last.cmd # "index"
    /\ \E r \in {checkout_tree(fs, sha, Worktree)} :
          /\ fs' = r.fs
          /\ last' = Result("checkout_tree", sha, r.ok, <<>>)
    /\ UNCHANGED pending

LsTree(sha, recursive) ==
    /\ last.cmd # "index"
    /\ \E r \in {ls_tree(fs, sha, recursive, <<>>)} :
          last' = Result("ls_tree", sha, r.ok, r.out)
    /\ UNCHANGED <<fs, pending>>

NextTreeUse ==
    \/ TreeFromIndex
    \/ \E sha \in TreeIds(fs) : CheckoutTreeOf(sha)
    \/ \E sha \in TreeIds(fs), recursive \in BOOLEAN : LsTree(sha, recursive)

SpecTreeUse == InitTree /\ [][NextTreeUse]_vars


\* init run again on a repository that has commits, tags, or a detached
\* HEAD (HEAD holding the hash of a commit).
DetachHead(sha) ==
    /\ Idle
    /\ repo_find(fs)
    /\ object_read(fs, sha).type = "commit"
    /\ \E w \in {WriteFile(fs, Gitdir \o <<HEAD>>, sha \o <<LF>>)} :
          /\ w.ok
          /\ fs' = w.fs
          /\ last' = Result("write", Gitdir \o <<HEAD>>, TRUE, sha \o <<LF>>)
    /\ UNCHANGED pending

NextReinit ==
    \/ Create
    \/ \E e \in Edits : EditFile(e[1], e[2])
    \/ \E paths \in ArgLists, ftime \in FileTimes : Add(MaxStaged, paths, ftime)
    \/ \E m \in Messages, u \in UserConfigs, t \in Timestamps : CommitCmd(m, u, t)
    \/ Tag(V1, NoArg)
    \/ \E sha \in ObjectIds(fs) : DetachHead(sha)

SpecReinit == Init /\ [][NextReinit]_vars

----------------------------------------------------------------------------
(* Properties                                                              *)

\* The entries of the index file, as read_index gives them.
IndexEntries(f) == read_index(f).entries

\* The positions of the index entries of a path given on the command line.
EntriesOf(f, path) ==
    {i \in 1..Len(IndexEntries(f)) : IndexEntries(f)[i].path = PathToStr(path)}

\* C1: after any sequence of add and rm the index holds at most one entry
\* per path, and after add of a path its one entry carries the sha of the
\* file's current bytes.
C1_OneEntryPerPath ==
    /\ \A i, j \in 1..Len(IndexEntries(fs)) :
            IndexEntries(fs)[i].path = IndexEntries(fs)[j].path => i = j
    /\ (last.cmd = "add" /\ last.ok) =>
            \A k \in 1..Len(last.arg) :
                \E i \in 1..Len(IndexEntries(fs)) :
                    /\ EntriesOf(fs, last.arg[k]) = {i}
                    /\ IndexEntries(fs)[i].sha =
                          ObjectId(Blob(fs.files[Worktree \o last.arg[k]]), "blob")

\* C2: rm of paths that have entries in the index succeeds, and the
\* rewritten index keeps exactly the other entries, in their order.
C2_RmRemovesEntry ==
    [][\A paths \in ArgLists :
          (Rm(paths) /\ \A k \in 1..Len(paths) : EntriesOf(fs, paths[k]) # {})
          => /\ last'.ok
             /\ IndexEntries(fs') =
                  SelectSeq2(IndexEntries(fs),
                             [i \in 1..Len(IndexEntries(fs)) |->
                                \A k \in 1..Len(paths) : i \notin EntriesOf(fs, paths[k])],
                             1)]_vars

\* The files of HEAD and of the branch master.
HeadFile == Gitdir \o <<HEAD>>
MasterFile == Gitdir \o <<REFS, HEADS, MASTER>>

\* A step of commit that reports success.
CommitStep ==
    /\ last'.cmd = "commit" /\ last'.ok
    /\ \E m \in Messages, u \in UserConfigs, t \in Timestamps : CommitCmd(m, u, t)

\* A step of checkout name.
CheckoutStep(name) == last'.cmd = "checkout" /\ last'.arg = name /\ Checkout(name)

\* The keys of the headers of a commit, in their order.
HeaderKeys(kvlm) == [i \in 1..Len(kvlm.headers) |-> kvlm.headers[i][1]]

C4_ParentIsPreviousTip ==
    [][CommitStep
       => LET kvlm == object_read(fs', last'.out).obj.kvlm
          IN  /\ object_read(fs', last'.out).type = "commit"
              /\ IF IsFile(fs, MasterFile)
                 THEN /\ HeaderKeys(kvlm) = <<KeyTree, KeyParent, KeyAuthor, KeyCommitter>>
                      /\ kvlm.headers[2][2] = Trim(fs.files[MasterFile])
                 ELSE HeaderKeys(kvlm) = <<KeyTree, KeyAuthor, KeyCommitter>>]_vars

\* A second commit has succeeded: its parent is the first commit, which
\* has none.
C4_Witness ==
    /\ last.cmd = "commit" /\ last.ok
    /\ LET parent == KvlmGet(object_read(fs, last.out).obj.kvlm, KeyParent)
       IN  /\ parent.some
           /\ object_read(fs, parent.value).type = "commit"
           /\ ~KvlmGet(object_read(fs, parent.value).obj.kvlm, KeyParent).some

\* C5: the tree a new commit names is the root tree tree_from_index builds
\* for the index: no entry name in it contains "/", and a file staged as
\* b/c is the entry c of the 40000 subtree entry b.
C5_CommitTreeIsBuiltTree ==
    [][CommitStep
       => LET tree_sha == KvlmGet(object_read(fs', last'.out).obj.kvlm, KeyTree).value
              root == object_read(fs', tree_sha)
          IN  /\ tree_sha = tree_from_index(fs, IndexEntries(fs)).sha
              /\ root.type = "tree"
              /\ \A i \in 1..Len(root.obj.entries) :
                    Position(root.obj.entries[i].path, "/", 1) = 0
              /\ \A k \in EntriesOf(fs, <<<<"b">>, <<"c">>>>) :
                    \E i \in 1..Len(root.obj.entries) :
                        /\ root.obj.entries[i].path = <<"b">>
                        /\ root.obj.entries[i].mode = Mode40000
                        /\ LET sub == object_read(fs', HexEncode(root.obj.entries[i].sha))
                           IN  /\ sub.type = "tree"
                               /\ \E j \in 1..Len(sub.obj.entries) :
                                     /\ sub.obj.entries[j].path = <<"c">>
                                     /\ HexEncode(sub.obj.entries[j].sha)
                                          = IndexEntries(fs)[k].sha]_vars

\* name resolves to a commit object of the repository.
ValidCommit(f, name) ==
    /\ object_resolve(f, name).ok
    /\ object_read(f, object_resolve(f, name).sha).type = "commit"

\* The leaves of the root tree of the commit name resolves to.
CommitLeaves(f, name) ==
    LET c == object_read(f, object_resolve(f, name).sha)
    IN  object_read(f, KvlmGet(c.obj.kvlm, KeyTree).value).obj.entries

\* The part of the file system under a directory, the directory included.
Under(f, dir) ==
    [files |-> [p \in {q \in DOMAIN f.files : IsPrefix(dir, q)} |-> f.files[p]],
     dirs |-> {d \in f.dirs : IsPrefix(dir, d)}]

\* The worktree without the gitdir.
Outside(f) ==
    [files |-> [p \in {q \in DOMAIN f.files : ~IsPrefix(Gitdir, q)} |-> f.files[p]],
     dirs |-> {d \in f.dirs : ~IsPrefix(Gitdir, d)}]

\* C6: after init, add and commit, whatever the worktree files hold since,
\* checkout of the commit's hash succeeds and leaves every committed file
\* with exactly the bytes it had when it was added.
C6_CheckoutRestores ==
    [][\A name \in ObjectIds(fs) :
          (CheckoutStep(name) /\ ValidCommit(fs, name) /\ CommitLeaves(fs, name) # <<>>)
          => /\ last'.ok
             /\ \A i \in 1..Len(CommitLeaves(fs, name)) :
                   LET leaf == CommitLeaves(fs, name)[i]
                   IN  ReadFile(fs', Worktree \o PathFromStr(leaf.path))
                         = [ok |-> TRUE,
                            data |-> object_read(fs, HexEncode(leaf.sha)).obj.data]]_vars

\* C7: checkout of a valid commit into a worktree that holds anything but
\* the gitdir returns an error and removes or changes no file of the
\* worktree.
C7_CheckoutRefusesNonEmpty ==
    [][\A name \in Names(fs) :
          (/\ CheckoutStep(name) /\ ValidCommit(fs, name)
           /\ ReadDir(fs, Worktree) \ {Gitdir} # {})
          => ~last'.ok /\ Outside(fs') = Outside(fs)]_vars

\* checkout of a commit's hash has been refused in a worktree that holds a
\* file.
C7_Witness ==
    /\ last.cmd = "checkout" /\ ~last.ok
    /\ last.arg # HEAD /\ ValidCommit(fs, last.arg)
    /\ \E p \in ReadDir(fs, Worktree) : p # Gitdir /\ IsFile(fs, p)

\* C8: checkout never deletes or modifies the gitdir or anything under it:
\* the objects, refs, HEAD, config and index are what they were before.
C8_CheckoutKeepsGitdir ==
    [][\A name \in Names(fs) :
          CheckoutStep(name) => Under(fs', Gitdir) = Under(fs, Gitdir)]_vars

\* checkout of a commit has run in a repository that holds objects, a
\* branch ref, HEAD, config and an index.
C8_Witness ==
    /\ last.cmd = "checkout" /\ ValidCommit(fs, last.arg)
    /\ IsFile(fs, MasterFile) /\ IsFile(fs, HeadFile)
    /\ IsFile(fs, Gitdir \o <<CONFIG>>) /\ IsFile(fs, Gitdir \o <<INDEX>>)
    /\ IndexEntries(fs) # <<>>

\* An object file that holds zlib(frame) of the object its path names.
HoldsObject(f, p) ==
    LET z == ZlibDecode(f.files[p])
    IN  z.ok /\ HexEncode(Sha1(z.data)) = p[Len(p) - 1] \o p[Len(p)]

\* The object store: objects/ and everything under it.
ObjectStore(f) == Under(f, Gitdir \o <<OBJECTS>>)

\* C9: object files are write-once: in every state, the intermediate
\* states of a write included, an object file that once held zlib(frame)
\* still holds exactly those bytes, and writing an object the store holds
\* leaves the store as it was.
C9_ObjectsWriteOnce ==
    [][/\ \A p \in ObjectFiles(fs) :
            HoldsObject(fs, p) => IsFile(fs', p) /\ fs'.files[p] = fs.files[p]
       /\ \A file \in UserPaths :
            (/\ ObjectHash(file) \/ HashObjectWriteAll
             /\ ObjectPath(last'.out) \in ObjectFiles(fs)
             /\ HoldsObject(fs, ObjectPath(last'.out)))
            => ObjectStore(fs') = ObjectStore(fs)]_vars

\* C10: hashing returns the hex40 that write returns for the same kind and
\* payload, and creates or modifies no file or directory under objects/.
C10_HashLeavesStore ==
    [][\A file \in UserPaths :
          (ObjectHash(file) \/ HashObject(FALSE, file))
          => /\ last'.ok => last'.out = object_write(fs, Blob(fs.files[Worktree \o file]),
                                                     "blob", TRUE).sha
             /\ ObjectStore(fs') = ObjectStore(fs)]_vars

\* C11: for every kind and every payload valid for it, object_read of the
\* hash object_write returned succeeds and gives that kind and an object
\* whose serialization is the payload written.
C11_ReadAfterWrite ==
    [][\A obj \in StoreObjects :
          (ObjectWrite(obj) /\ last'.ok)
          => /\ object_read(fs', last'.out).ok
             /\ object_read(fs', last'.out).type = obj.type
             /\ Serialize(object_read(fs', last'.out).obj) = Serialize(obj)]_vars

\* The frame the object file of sha holds.
StoredFrame(f, sha) == ZlibDecode(f.files[ObjectPath(sha)]).data

\* The value of a decimal numeral, -1 when s is not one.
RECURSIVE DecimalValue(_, _)
DecimalValue(s, acc) ==
    IF s = <<>> THEN acc
    ELSE IF HexVal(s[1]) < 0 \/ HexVal(s[1]) > 9 THEN -1
    ELSE DecimalValue(Tail(s), acc * 10 + HexVal(s[1]))

\* A frame is <kind> SP <len> NUL <payload>.
FrameHeader(frame) == SubSeq(frame, 1, Position(frame, NUL, 1) - 1)
FrameKind(frame) == SubSeq(FrameHeader(frame), 1, Position(FrameHeader(frame), SP, 1) - 1)
FrameLen(frame) ==
    LET digits == Drop(FrameHeader(frame), Position(FrameHeader(frame), SP, 1))
    IN  IF digits = <<>> THEN -1 ELSE DecimalValue(digits, 0)

FrameMalformed(frame) ==
    \/ Position(frame, NUL, 1) = 0
    \/ FrameKind(frame) \notin {TypeName(t) : t \in {"blob", "commit", "tree", "tag"}}
    \/ FrameLen(frame) # Len(frame) - Position(frame, NUL, 1)

\* C12: object_read returns an error and no object for every stored frame
\* without NUL, of an unknown kind, or whose declared length is not the
\* number of payload bytes.
C12_ReadRejectsMalformed ==
    [][\A sha \in ObjectIds(fs) :
          (ObjectRead(sha) /\ FrameMalformed(StoredFrame(fs, sha)))
          => ~last'.ok /\ last'.out.obj = NoObject]_vars

\* The same for the frames without NUL or of an unknown kind only.
C12_ReadRejectsNoNulOrKind ==
    [][\A sha \in ObjectIds(fs) :
          (/\ ObjectRead(sha)
           /\ \/ Position(StoredFrame(fs, sha), NUL, 1) = 0
              \/ FrameKind(StoredFrame(fs, sha))
                    \notin {TypeName(t) : t \in {"blob", "commit", "tree", "tag"}})
          => ~last'.ok /\ last'.out.obj = NoObject]_vars

KeysNonEmpty(kvlm) == \A i \in 1..Len(kvlm.headers) : kvlm.headers[i][1] # <<>>

\* C13, as amended: kvlm_parse(kvlm_serialize(k)) is k, headers in order,
\* duplicate keys kept and the message the same, for every record whose keys
\* are not empty and hold no SP or LF, whatever the values and the message.
C13_RoundTripNonEmptyKeys ==
    (last.cmd = "kvlm_roundtrip" /\ KeysNonEmpty(last.arg))
    => last.ok /\ last.out = last.arg

\* C13, as stated: the same for every record whose keys hold no SP or LF,
\* the empty key included.
C13_RoundTrip ==
    last.cmd = "kvlm_roundtrip" => last.ok /\ last.out = last.arg

\* A record with a duplicate key and a value holding LF SP came back.
C13_Witness ==
    /\ last.cmd = "kvlm_roundtrip"
    /\ last.ok
    /\ last.out = [headers |-> <<<<<<"p">>, <<LF, SP>>>>, <<<<"p">>, <<"a", LF>>>>>>,
                   message |-> <<>>]

\* The position after the header lines of raw and their blank line, reading
\* from pos: 0 when a header line has no SP or the lines end without a blank
\* line.  A header line runs to the first LF that no SP follows.
RECURSIVE BodyStart(_, _)
BodyStart(raw, pos) ==
    IF pos > Len(raw) THEN 0
    ELSE IF raw[pos] = LF THEN pos + 1
    ELSE LET end == CHOOSE e \in pos..(Len(raw) + 1) :
                      /\ e = Len(raw) + 1
                         \/ (raw[e] = LF /\ (e = Len(raw) \/ raw[e + 1] # SP))
                      /\ \A d \in pos..(e - 1) :
                            ~(raw[d] = LF /\ (d = Len(raw) \/ raw[d + 1] # SP))
         IN  IF end > Len(raw) THEN 0
             ELSE IF \A i \in pos..end : raw[i] # SP THEN 0
             ELSE BodyStart(raw, end + 1)

\* C14: kvlm_parse returns an error for every non-empty input with a header
\* line without SP or whose header lines are not followed by a blank line,
\* also when the input ends right after the LF of the last header line, and
\* the empty record for the empty input.
C14_ParseErrors ==
    last.cmd = "kvlm_parse"
    => /\ (last.arg # <<>> /\ BodyStart(last.arg, 1) = 0) => ~last.ok
       /\ last.arg = <<>> => (last.ok /\ last.out = EmptyKvlm)

\* The same without the inputs that end right after the LF of a header line.
C14_ParseErrorsUnlessAtEnd ==
    last.cmd = "kvlm_parse"
    => /\ (/\ last.arg # <<>>
           /\ BodyStart(last.arg, 1) = 0
           /\ last.arg[Len(last.arg)] # LF) => ~last.ok
       /\ last.arg = <<>> => (last.ok /\ last.out = EmptyKvlm)

\* C15: read_index after write_index returns the index written, field by
\* field and in the same order, for every well-formed index and every path
\* length modulo 8.
C15_IndexRoundTrip ==
    last.cmd = "index_roundtrip" => last.ok /\ last.out = last.arg

\* Two entries came back, path lengths 7 and 8, with large field values.
C15_Witness ==
    /\ last.cmd = "index_roundtrip"
    /\ last.ok
    /\ Len(last.out) = 2
    /\ Len(last.out[1].path) = 7
    /\ Len(last.out[2].path) = 8
    /\ last.out[1].ctime = 2147483647
    /\ last.out = last.arg

\* Offset in the index file of entry i of es, counted from 0: after the
\* 12-byte header and the bytes written for the entries before it.
RECURSIVE EntryOffset(_, _)
EntryOffset(es, i) ==
    IF i = 1 THEN 12
    ELSE EntryOffset(es, i - 1) + Len(EntryBytes(es[i - 1]))

\* C16: in the file write_index produced every entry with its padding is
\* 62 + |path| + 1 + pad bytes long, a multiple of 8, so that every entry
\* starts at an offset that is 4 modulo 8, and read_index, skipping the pad
\* bytes, finds every entry where it was written.
C16_EntriesAligned ==
    last.cmd = "index_roundtrip"
    => LET b == fs.files[Gitdir \o <<INDEX>>]
           n == Len(last.arg)
       IN  /\ \A i \in 1..n :
                 LET e == last.arg[i]
                     off == EntryOffset(last.arg, i)
                     len == Len(EntryBytes(e))
                 IN  /\ SubSeq(b, off + 1, off + len) = EntryBytes(e)
                     /\ len % 8 = 0
                     /\ len - (62 + Len(e.path) + 1) \in 0..7
                     /\ \A j \in (off + 62 + Len(e.path) + 1)..(off + len) : b[j] = NUL
                     /\ off % 8 = 4
           /\ Len(b) = EntryOffset(last.arg, n + 1)
           /\ last.ok
           /\ Len(last.out) = n
           /\ \A i \in 1..n : last.out[i].path = last.arg[i].path

\* An index of two entries whose paths need 1 and 7 pad bytes was written.
C16_Witness ==
    /\ last.cmd = "index_roundtrip"
    /\ Len(last.arg) = 2
    /\ Len(last.arg[1].path) = 0
    /\ Len(last.arg[2].path) = 2
    /\ Len(fs.files[Gitdir \o <<INDEX>>]) = 12 + 64 + 72

\* The name of a tree entry as the directory-aware order compares it.
OrderName(leaf) == IF leaf.mode = Mode40000 THEN leaf.path \o <<"/">> ELSE leaf.path

\* The entries of the tree objects in the store.
StoredTrees(f) ==
    {object_read(f, sha).obj.entries :
        sha \in {x \in ObjectIds(f) : object_read(f, x).type = "tree"}}

\* C17: the entries of every tree the tree builder wrote are in
\* directory-aware order: a file a.b before a directory a.
C17_DirectoryAwareOrder ==
    last.cmd = "tree_from_index"
    => \A entries \in StoredTrees(fs) :
          \A i \in 1..(Len(entries) - 1) :
             BytesLess(OrderName(entries[i]), OrderName(entries[i + 1]))

\* The same with the names compared as they are.
C17_PlainOrder ==
    last.cmd = "tree_from_index"
    => \A entries \in StoredTrees(fs) :
          \A i \in 1..(Len(entries) - 1) :
             BytesLess(entries[i].path, entries[i + 1].path)

\* No path of the index is another followed by a slash: no path names both
\* a file and a directory.
NoFileIsDir(entries) ==
    \A i, j \in 1..Len(entries) :
        ~IsPrefix(entries[i].path \o <<"/">>, entries[j].path)

Missing == [path |-> <<>>, sha |-> <<>>, mode |-> <<>>]

\* What a walk from the tree sha reaches: the leaves with their paths from
\* the root, Missing for a tree that cannot be read or an entry whose name
\* is not one path component.
RECURSIVE TreeWalk(_, _, _)
TreeWalk(f, sha, prefix) ==
    LET t == object_read(f, sha)
    IN  IF ObjectPath(sha) \notin DOMAIN f.files \/ ~t.ok \/ t.type # "tree"
        THEN {Missing}
        ELSE UNION {
               LET leaf == t.obj.entries[i]
               IN  IF Position(leaf.path, "/", 1) # 0 \/ leaf.path = <<>>
                   THEN {Missing}
                   ELSE IF leaf.mode = Mode40000
                   THEN TreeWalk(f, HexEncode(leaf.sha), prefix \o leaf.path \o <<"/">>)
                   ELSE {[path |-> prefix \o leaf.path, sha |-> HexEncode(leaf.sha),
                          mode |-> leaf.mode]}
               : i \in 1..Len(t.obj.entries)}

StartingWith(f, short) == {id \in ObjectIds(f) : StartsWith(id, short)}

\* C19: an abbreviated hash of 4 to 39 hex characters fails as not found
\* when no stored hash starts with it, gives the full hash when one does,
\* and fails as ambiguous when several do.
C19_Abbreviated ==
    (last.cmd = "resolve_sha" /\ Len(last.arg) < 40)
    => LET found == StartingWith(fs, last.arg)
       IN  /\ found = {} => (~last.ok /\ last.out.err = NoObjectsFound)
           /\ Cardinality(found) = 1
                => (last.ok /\ last.out.sha \in found /\ Len(last.out.sha) = 40)
           /\ Cardinality(found) > 1 => (~last.ok /\ last.out.err = AmbiguousPrefix)
           /\ object_resolve(fs, last.arg).ok = last.ok
           /\ last.ok => object_resolve(fs, last.arg).sha = last.out.sha

\* abcd is ambiguous and abcd0, longer by one character, resolves.
C19_Witness ==
    /\ last.cmd = "resolve_sha"
    /\ last.arg = <<"a", "b", "c", "d", "0">>
    /\ last.ok
    /\ last.out.sha = Sha40(<<"a", "b", "c", "d", "0">>)
    /\ ResolveSha(fs, <<"a", "b", "c", "d">>).err = AmbiguousPrefix

\* What resolving HEAD is to give in f: the trimmed content of the ref
\* file HEAD names, an error when that file is missing, the trimmed content
\* of HEAD when HEAD names no ref.
HeadResolution(f) ==
    LET head == f.files[Gitdir \o <<HEAD>>]
        target == Gitdir \o PathFromStr(Trim(Drop(head, 5)))
    IN  IF StartsWith(head, RefPrefix)
        THEN IF target \in DOMAIN f.files
             THEN [ok |-> TRUE, sha |-> Trim(f.files[target])]
             ELSE [ok |-> FALSE, sha |-> <<>>]
        ELSE [ok |-> TRUE, sha |-> Trim(head)]

\* C20: resolving HEAD gives the trimmed content of the ref file HEAD points
\* to when HEAD begins with "ref: " and the trimmed content of HEAD
\* otherwise, never a result that begins with "ref: ", and an error when
\* the ref file does not exist.
C20_HeadResolves ==
    (last.cmd \in {"object_resolve", "ref_parse"} /\ last.arg = HEAD)
    => /\ last.ok = HeadResolution(fs).ok
       /\ last.ok => last.out = HeadResolution(fs).sha
       /\ last.ok => ~StartsWith(last.out, RefPrefix)

\* The same of object_resolve alone.
C20_ObjectResolveHead ==
    (last.cmd = "object_resolve" /\ last.arg = HEAD)
    => /\ last.ok = HeadResolution(fs).ok
       /\ last.ok => last.out = HeadResolution(fs).sha
       /\ last.ok => ~StartsWith(last.out, RefPrefix)

\* The rules of a rule set that match path, and the value of the last one.
MatchingRules(rules, path) == {i \in 1..Len(rules) : WildMatch(rules[i].pattern, path)}
LastMatch(rules, path) ==
    rules[CHOOSE i \in MatchingRules(rules, path) :
            \A j \in MatchingRules(rules, path) : j <= i].value

\* The directories from the parent of path up to the root, nearest first.
RECURSIVE DirsAbove(_)
DirsAbove(path) ==
    IF PathFromStr(path) = <<>> THEN <<>>
    ELSE <<ParentStr(path)>> \o DirsAbove(ParentStr(path))

\* C21: check_ignore gives the value of the last matching rule of the
\* nearest directory above the path whose scoped rule set has a match; when
\* there is none, that of the last matching rule of the first absolute rule
\* set with a match; and not ignored when nothing matches.
C21_NearestScopedThenAbsolute ==
    last.cmd = "check_ignore"
    => LET path == last.arg.path
           scoped == last.arg.rules.scoped
           absolute == last.arg.rules.absolute
           above == DirsAbove(path)
           near == {i \in 1..Len(above) :
                      /\ above[i] \in DOMAIN scoped
                      /\ MatchingRules(scoped[above[i]], path) # {}}
           abs == {i \in 1..Len(absolute) : MatchingRules(absolute[i], path) # {}}
       IN  /\ last.ok
           /\ last.out =
                IF near # {}
                THEN LastMatch(scoped[above[CHOOSE i \in near : \A j \in near : i <= j]], path)
                ELSE IF abs # {}
                THEN LastMatch(absolute[CHOOSE i \in abs : \A j \in abs : i <= j], path)
                ELSE FALSE

\* a/b/x.log: the rules of a/b do not match, those of a say not ignored as
\* their last match, the root's and the absolute ones say ignored.
C21_Witness ==
    /\ last.cmd = "check_ignore"
    /\ last.arg.path = <<"a", "/", "b", "/", "x", ".", "l", "o", "g">>
    /\ DOMAIN last.arg.rules.scoped = RuleDirs
    /\ last.arg.rules.scoped[<<"a", "/", "b">>] = <<>>
    /\ last.arg.rules.scoped[<<"a">>] = <<Rule(StarLog, TRUE), Rule(StarXLog, FALSE)>>
    /\ last.arg.rules.scoped[<<>>] = <<Rule(StarLog, TRUE)>>
    /\ last.arg.rules.absolute = <<<<Rule(StarLog, TRUE)>>>>
    /\ last.out = FALSE

\* What the index says the file at path holds: the data of the blob of the
\* last entry for path, the empty string when there is none.
Tracked(f, path) ==
    LET es == read_index(f).entries
        at == {i \in 1..Len(es) : es[i].path = path}
    IN  IF ~read_index(f).ok \/ at = {} THEN <<>>
        ELSE Serialize(object_read(f, es[CHOOSE i \in at : \A j \in at : j <= i].sha).obj)

ExcludesLogs(f) ==
    /\ IsFile(f, Gitdir \o <<INFO, EXCLUDE>>)
    /\ \E i \in 1..Len(Lines(f.files[Gitdir \o <<INFO, EXCLUDE>>])) :
          Trim(Lines(f.files[Gitdir \o <<INFO, EXCLUDE>>])[i]) = StarLog

\* C22: with *.log in info/exclude and !keep.log in the tracked
\* sub/.gitignore, check-ignore does not print sub/keep.log and prints
\* other/x.log.
C22_NegationInDirectory ==
    (/\ last.cmd = "check-ignore"
     /\ last.ok
     /\ ExcludesLogs(fs)
     /\ Tracked(fs, PathToStr(SubGitignore)) = NotKeepLog)
    => /\ ~InSeq(PathToStr(SubKeepLog), last.out)
       /\ InSeq(OtherXLog, last.arg) => InSeq(PathToStr(OtherXLog), last.out)

\* The part of it about the other directory.
C22_OtherDirectoryIgnored ==
    (/\ last.cmd = "check-ignore"
     /\ last.ok
     /\ ExcludesLogs(fs)
     /\ Tracked(fs, PathToStr(SubGitignore)) = NotKeepLog)
    => (InSeq(OtherXLog, last.arg) => InSeq(PathToStr(OtherXLog), last.out))

\* With the negation written for the path from the root of the worktree.
C22_NegationOfWholePath ==
    (/\ last.cmd = "check-ignore"
     /\ last.ok
     /\ ExcludesLogs(fs)
     /\ Tracked(fs, PathToStr(SubGitignore)) = <<"!", "*">> \o KEEP_LOG \o <<LF>>)
    => ~InSeq(PathToStr(SubKeepLog), last.out)

\* The files under refs/ with their content.
RefsFiles(f) ==
    [p \in {q \in DOMAIN f.files : IsPrefix(Gitdir \o <<REFS>>, q)} |-> f.files[p]]

TagFiles(f) == {q \in DOMAIN f.files : IsPrefix(Gitdir \o <<REFS, TAGS>>, q)}

\* C23: tag fails when refs/tags/<name> exists or the name holds a slash,
\* a failed tag leaves the files under refs/ as they were, and no step
\* changes the content of a tag file that exists.
C23_TagsAreNeverRewritten ==
    [][/\ last'.cmd = "tag"
            => /\ (\/ Exists(fs, Gitdir \o <<REFS, TAGS, last'.arg.name>>)
                   \/ Position(last'.arg.name, "/", 1) # 0) => ~last'.ok
               /\ ~last'.ok => RefsFiles(fs') = RefsFiles(fs)
       /\ \A p \in TagFiles(fs) : p \in TagFiles(fs') /\ fs'.files[p] = fs.files[p]]_vars

\* tag v1 with another object has failed on the tag v1 that exists.
C23_Witness ==
    /\ last.cmd = "tag"
    /\ ~last.ok
    /\ last.arg.name = V1
    /\ IsFile(fs, Gitdir \o <<REFS, TAGS, V1>>)
    /\ fs.files[Gitdir \o <<REFS, TAGS, V1>>] # last.arg.object.name \o <<LF>>
    /\ last.arg.object.some

\* The object a tag command names.
TagTarget(arg) == IF arg.object.some THEN arg.object.name ELSE HEAD

\* C24: after tag name obj succeeds refs/tags/<name> holds the 40 hex
\* characters obj resolves to and LF, whether obj is HEAD, a branch, an
\* abbreviated or a full hash, and name then resolves to what obj resolved to.
C24_TagHoldsResolvedHash ==
    [][(last'.cmd = "tag" /\ last'.ok)
          => /\ object_resolve(fs, TagTarget(last'.arg)).ok
             /\ Len(object_resolve(fs, TagTarget(last'.arg)).sha) = 40
             /\ fs'.files[Gitdir \o <<REFS, TAGS, last'.arg.name>>]
                  = object_resolve(fs, TagTarget(last'.arg)).sha \o <<LF>>
             /\ object_resolve(fs', last'.arg.name)
                  = object_resolve(fs, TagTarget(last'.arg))]_vars

\* The same for an object given by its full hash.
C24_TagHoldsFullHash ==
    [][(last'.cmd = "tag" /\ last'.ok /\ Len(TagTarget(last'.arg)) = 40)
          => /\ fs'.files[Gitdir \o <<REFS, TAGS, last'.arg.name>>]
                  = TagTarget(last'.arg) \o <<LF>>
             /\ object_resolve(fs', last'.arg.name)
                  = object_resolve(fs, TagTarget(last'.arg))]_vars

\* The gitdir as init leaves it.
NewGitdir(f) ==
    /\ {Gitdir \o <<BRANCHES>>, Gitdir \o <<OBJECTS>>, Gitdir \o <<REFS, TAGS>>,
        Gitdir \o <<REFS, HEADS>>} \subseteq f.dirs
    /\ {Gitdir \o <<DESCRIPTION>>, Gitdir \o <<CONFIG>>, Gitdir \o <<HEAD>>}
         \subseteq DOMAIN f.files
    /\ f.files[Gitdir \o <<HEAD>>] = RefPrefix \o RefsHeadsMaster \o <<LF>>

\* C25: create succeeds when the path does not exist or is an empty
\* directory and leaves the gitdir with branches, objects, refs/tags,
\* refs/heads, description, config and HEAD = "ref: refs/heads/master" LF;
\* it fails and creates nothing when the path is a directory that is not
\* empty.
C25_CreateOnEmptyPath ==
    [][last'.cmd = "init"
         => /\ (\/ ~Exists(fs, Worktree)
                \/ (IsDir(fs, Worktree) /\ ReadDir(fs, Worktree) = {}))
                 => (last'.ok /\ NewGitdir(fs'))
            /\ (IsDir(fs, Worktree) /\ ReadDir(fs, Worktree) # {})
                 => (~last'.ok /\ fs' = fs)]_vars

\* What decides is the directory .git: create succeeds in a directory
\* without .git or with an empty one, whatever else the directory holds,
\* and fails, changing nothing, when .git holds something.
C25_CreateOnEmptyGitdir ==
    [][last'.cmd = "init"
         => /\ (/\ IsDir(fs, Worktree)
                /\ \/ ~Exists(fs, Gitdir)
                   \/ (IsDir(fs, Gitdir) /\ ReadDir(fs, Gitdir) = {}))
                 => (last'.ok /\ NewGitdir(fs'))
            /\ ReadDir(fs, Gitdir) # {} => (~last'.ok /\ fs' = fs)
            /\ ~Exists(fs, Worktree) => (~last'.ok /\ fs' = fs)]_vars

\* The index file, when there is one.
IndexFile(f) ==
    IF IsFile(f, Gitdir \o <<INDEX>>) THEN <<f.files[Gitdir \o <<INDEX>>]>> ELSE <<>>

\* The blob of the worktree file path is in the object store.
BlobStored(f, path) ==
    /\ IsFile(f, Worktree \o path)
    /\ HexEncode(Sha1(Frame(Blob(f.files[Worktree \o path]), "blob"))) \in ObjectIds(f)

\* C26: during add the index file is not rewritten before every blob of
\* the command is in the object store.
C26_IndexAfterBlobs ==
    [][/\ (Idle /\ ~Idle' /\ IndexFile(fs') # IndexFile(fs))
            => \A i \in 1..Len(pending'[1].paths) : BlobStored(fs', pending'[1].paths[i])
       /\ (Idle /\ Idle' /\ last'.cmd = "add" /\ IndexFile(fs') # IndexFile(fs))
            => \A i \in 1..Len(last'.arg) : BlobStored(fs', last'.arg[i])
       /\ (~Idle /\ IndexFile(fs') # IndexFile(fs))
            => \A i \in 1..Len(pending[1].paths) : BlobStored(fs', pending[1].paths[i])]_vars

\* The same of the last write of add alone, the one that stores the new
\* entries.
C26_NewEntriesAfterBlobs ==
    [][(~Idle /\ IndexFile(fs') # IndexFile(fs))
            => \A i \in 1..Len(pending[1].paths) : BlobStored(fs', pending[1].paths[i])]_vars

\* C27: a reader of the index file that runs between two steps of
\* write_index, or after write_index was interrupted, observes the complete
\* previous index or the complete new one.
C27_ReaderSeesOldOrNew ==
    last.cmd = "read_index" => /\ last.ok
                               /\ last.out \in {last.arg.old, last.arg.new}

\* A reader that runs when no write is under way observes the index that
\* the last complete write_index stored.
C27_ReaderSeesCompleteWrite ==
    [][(Idle /\ last.cmd = "write_index" /\ last.ok /\ last'.cmd = "read_index")
          => last'.ok /\ last'.out = last.arg]_vars

\* The entries of mode 40000 of the tree stored under sha.
DirEntries(f, sha) ==
    LET es == object_read(f, sha).obj.entries
    IN  {es[i] : i \in {k \in 1..Len(es) : es[k].mode = Mode40000}}

\* C28: every directory entry the tree builder writes is recognised as a
\* directory by checkout_tree, which creates the directory, and by
\* mode_to_type of ls-tree, which classifies it as a tree.
C28_DirectoryEntriesAreRecognised ==
    /\ \A sha \in TreeIds(fs) : \A e \in DirEntries(fs, sha) :
          mode_to_type(e.mode) = [ok |-> TRUE, type |-> "tree"]
    /\ (last.cmd = "ls_tree" /\ DirEntries(fs, last.arg) # {}) => last.ok
    /\ (last.cmd = "checkout_tree" /\ DirEntries(fs, last.arg) # {})
          => \A e \in DirEntries(fs, last.arg) :
                IsDir(fs, Worktree \o PathFromStr(e.path))

\* ls_tree lists a tree that holds no directory entry, one line for each
\* entry.
C28_FlatTreesAreListed ==
    (last.cmd = "ls_tree" /\ DirEntries(fs, last.arg) = {})
       => /\ last.ok
          /\ Len(last.out) = Len(object_read(fs, last.arg).obj.entries)

\* Two results of a resolver agree: an error in both, or the same hash.
SameResolution(a, b) == a.ok = b.ok /\ (a.ok => a.sha = b.sha)

\* HEAD is a symbolic ref.
HeadIsSymbolic(f) ==
    /\ IsFile(f, Gitdir \o <<HEAD>>)
    /\ StartsWith(f.files[Gitdir \o <<HEAD>>], RefPrefix)

\* C29: object_resolve and ref_parse return the same result for every name
\* in every state of the repository: what one of them returned is what the
\* other returns in the same state.
C29_ResolversAgree ==
    /\ last.cmd = "ref_parse"
          => SameResolution([ok |-> last.ok, sha |-> last.out],
                            object_resolve(fs, last.arg))
    /\ last.cmd = "object_resolve"
          => SameResolution([ok |-> last.ok, sha |-> last.out],
                            ref_parse(fs, last.arg))

\* The same for the names other than HEAD, and for HEAD when it is detached.
C29_ResolversAgreeOffSymbolicHead ==
    (last.cmd \in {"ref_parse", "object_resolve"}
     /\ ~(last.arg = HEAD /\ HeadIsSymbolic(fs)))
       => /\ SameResolution([ok |-> last.ok, sha |-> last.out],
                            object_resolve(fs, last.arg))
          /\ SameResolution([ok |-> last.ok, sha |-> last.out],
                            ref_parse(fs, last.arg))

\* The repository has a commit, a tag, or a detached HEAD.
HasCommit(f) == \E sha \in ObjectIds(f) : object_read(f, sha).type = "commit"
HasTag(f) == \E p \in DOMAIN f.files : StartsWith(p, Gitdir \o <<REFS, TAGS>>)
HeadIsDetached(f) ==
    IsFile(f, Gitdir \o <<HEAD>>) /\ ~StartsWith(f.files[Gitdir \o <<HEAD>>], RefPrefix)

\* C30: create on a worktree that holds an initialised repository fails
\* and leaves every file and directory as it was.
C30_CreateAgainChangesNothing ==
    [][(last'.cmd = "init" /\ repo_find(fs)) => (~last'.ok /\ fs' = fs)]_vars

\* init has just failed on a repository that has a commit and a tag and
\* whose HEAD is detached.
C30_Witness ==
    /\ last.cmd = "init"
    /\ ~last.ok
    /\ repo_find(fs)
    /\ HasCommit(fs)
    /\ HasTag(fs)
    /\ HeadIsDetached(fs)

====
